---- MODULE Spec2Model ----
(***************************************************************************)
(* A model of the velo mail-protocol engine (src-tauri/src/commands.rs and *)
(* src-tauri/src/imap/client.rs): the public IMAP commands, the standard   *)
(* command layer built on the IMAP library, and the raw fallback engine    *)
(* that parses the wire by hand.                                           *)
(*                                                                         *)
(* Bytes are modelled as one-character strings; a Rust String or byte      *)
(* vector is a sequence of them.  Option<number> is a number, None is -1.  *)
(***************************************************************************)
EXTENDS Integers, Sequences, FiniteSets, TLC

\* ------------------------------------------------------------------------
\* Bounds of the model
\* ------------------------------------------------------------------------

\* Largest number of bytes one socket read returns in the parser harness.
MaxChunk == 2

\* Largest number of response segments in a canned FETCH stream.
MaxItems == 2

\* Largest number of items the library's FETCH stream yields.
MaxFetch == 2

\* Largest message count SELECT reports in the standard layer.
MaxExists == 1

\* The most lines or responses the server sends before the tagged status.
MaxUntagged == 1

\* ------------------------------------------------------------------------
\* Program constants
\* ------------------------------------------------------------------------

\* Most challenges a server sends in one AUTHENTICATE exchange.
MaxChallenges == 2

\* Most flag names in one call of imap_set_flags.
MaxFlags == 2

\* Most mailboxes the server lists.
MaxFolders == 2

\* BufReader::new: the default buffer capacity, the most one fill reads.
BufCap == 8192

None == -1

\* ------------------------------------------------------------------------
\* Bytes and strings
\* ------------------------------------------------------------------------

CR == "\r"
LF == "\n"
SP == " "
BSL == "\\"
DQ == "\""

\* A byte that is not valid UTF-8 on its own.
BinByte == "0xFF"

Digits == <<"0", "1", "2", "3", "4", "5", "6", "7", "8", "9">>

IsDigit(c) == \E i \in 1..10 : Digits[i] = c

DigitVal(c) == (CHOOSE i \in 1..10 : Digits[i] = c) - 1

\* char::is_whitespace restricted to the bytes of the model.
IsWhitespace(c) == c \in {SP, CR, LF, "\t"}

Min(a, b) == IF a <= b THEN a ELSE b

Take(s, n) == SubSeq(s, 1, Min(n, Len(s)))

Drop(s, n) == SubSeq(s, Min(n, Len(s)) + 1, Len(s))

\* str::starts_with
StartsWith(s, p) == Len(s) >= Len(p) /\ SubSeq(s, 1, Len(p)) = p

\* str::ends_with
EndsWith(s, p) == Len(s) >= Len(p) /\ SubSeq(s, Len(s) - Len(p) + 1, Len(s)) = p

\* str::find: the 1-based index of the first occurrence of p in s, 0 when there
\* is none.
Find(s, p) ==
  LET hits == {i \in 1..(Len(s) - Len(p) + 1) : SubSeq(s, i, i + Len(p) - 1) = p}
  IN  IF hits = {} THEN 0 ELSE CHOOSE i \in hits : \A j \in hits : i <= j

\* str::rfind of one character: the index of its last occurrence, 0 when none.
RFindChar(s, c) ==
  LET hits == {i \in 1..Len(s) : s[i] = c}
  IN  IF hits = {} THEN 0 ELSE CHOOSE i \in hits : \A j \in hits : i >= j

\* str::contains
Contains(s, p) == Find(s, p) # 0

\* str::trim_end
RECURSIVE TrimEnd(_)
TrimEnd(s) ==
  IF Len(s) > 0 /\ IsWhitespace(s[Len(s)]) THEN TrimEnd(SubSeq(s, 1, Len(s) - 1))
  ELSE s

\* str::trim_start
RECURSIVE TrimStart(_)
TrimStart(s) ==
  IF Len(s) > 0 /\ IsWhitespace(s[1]) THEN TrimStart(Tail(s)) ELSE s

\* str::trim
Trim(s) == TrimStart(TrimEnd(s))

\* The value of a string of decimal digits, most significant first.
RECURSIVE DigitsValue(_)
DigitsValue(s) ==
  IF s = <<>> THEN 0
  ELSE 10 * DigitsValue(SubSeq(s, 1, Len(s) - 1)) + DigitVal(s[Len(s)])

\* str::parse for an unsigned integer: an optional '+', then one or more
\* digits; anything else is an error (None).  The digit strings of the model
\* stay far below the width of u32 and usize, so the overflow error of the
\* real parse is never reached here.
ParseUnsigned(s) ==
  LET ds == IF Len(s) > 0 /\ s[1] = "+" THEN Tail(s) ELSE s
  IN  IF ds = <<>> \/ \E i \in 1..Len(ds) : ~IsDigit(ds[i]) THEN None
      ELSE DigitsValue(ds)

\* u32::to_string / usize Display: decimal digits, no sign, no padding.
RECURSIVE Dec(_)
Dec(n) == IF n < 10 THEN <<Digits[n + 1]>> ELSE Dec(n \div 10) \o <<Digits[(n % 10) + 1]>>

\* The concatenation of a sequence of strings.
RECURSIVE Concat(_)
Concat(ss) == IF ss = <<>> THEN <<>> ELSE Head(ss) \o Concat(Tail(ss))

\* ------------------------------------------------------------------------
\* Protocol text
\* ------------------------------------------------------------------------

CRLF == <<CR, LF>>

kStar == <<"*", SP>>
kFETCH == <<"F", "E", "T", "C", "H">>
kUID == <<"U", "I", "D", SP>>
kBODY == <<"B", "O", "D", "Y", "[", "]", SP>>
kINTERNALDATE == <<"I", "N", "T", "E", "R", "N", "A", "L", "D", "A", "T", "E", SP, DQ>>
kFLAGS == <<"F", "L", "A", "G", "S", SP, "(">>
kSeen == <<BSL, "S", "e", "e", "n">>
kFlagged == <<BSL, "F", "l", "a", "g", "g", "e", "d">>
kDraft == <<BSL, "D", "r", "a", "f", "t">>
kOK == <<SP, "O", "K">>
kNO == <<SP, "N", "O">>
kBAD == <<SP, "B", "A", "D">>
kEXISTS == <<"E", "X", "I", "S", "T", "S">>
kUIDVALIDITY == <<"U", "I", "D", "V", "A", "L", "I", "D", "I", "T", "Y">>
kUNSEEN == <<"U", "N", "S", "E", "E", "N">>

\* The tags of the raw engine's commands.
TagA1 == <<"a", "1">>
TagA2 == <<"a", "2">>
TagA3 == <<"a", "3">>

\* ------------------------------------------------------------------------
\* FETCH line field extraction (imap/client.rs, raw TCP helpers)
\* ------------------------------------------------------------------------

\* The length of the longest prefix of s made of ASCII digits:
\* s.find(|c| !c.is_ascii_digit()).unwrap_or(s.len()).
DigitPrefixLen(s) ==
  LET stops == {i \in 1..Len(s) : ~IsDigit(s[i])}
  IN  IF stops = {} THEN Len(s) ELSE (CHOOSE i \in stops : \A j \in stops : i <= j) - 1

\* extract_fetch_uid: the digits that follow the first "UID ", parsed as u32.
extract_fetch_uid(ln) ==
  LET uid_idx == Find(ln, kUID)
      after_uid == Drop(ln, uid_idx + 3)
  IN  IF uid_idx = 0 THEN None
      ELSE ParseUnsigned(Take(after_uid, DigitPrefixLen(after_uid)))

\* extract_flags_from_fetch: the text between the first "FLAGS (" and the next
\* ')', the empty string when either is missing.
extract_flags_from_fetch(ln) ==
  LET flags_start == Find(ln, kFLAGS)
      after == Drop(ln, flags_start + 6)
      end == Find(after, <<")">>)
  IN  IF flags_start = 0 \/ end = 0 THEN <<>> ELSE Take(after, end - 1)

\* extract_literal_size: the number between the last '{' and a closing '}' that
\* ends the line once trailing whitespace is trimmed.
extract_literal_size(ln) ==
  LET trimmed == TrimEnd(ln)
      brace_start == RFindChar(trimmed, "{")
  IN  IF ~EndsWith(trimmed, <<"}">>) THEN None
      ELSE IF brace_start = 0 THEN None
      ELSE ParseUnsigned(SubSeq(trimmed, brace_start + 1, Len(trimmed) - 1))

\* ------------------------------------------------------------------------
\* State
\* ------------------------------------------------------------------------

VARIABLES
  \* --- a public command (commands.rs) ---
  op,         \* the command invoked
  uids,       \* its UID list argument (empty for commands that take none)
  since_uid,  \* imap_fetch_new_uids: the UID after which to search
  flags,      \* imap_set_flags: the flag names
  add,        \* imap_set_flags: add the flags, or remove them
  cfg,        \* its ImapConfig: security mode and authentication method
  payload,    \* imap_append_message: the base64url text of the message
  cpc,        \* where the command is: "start", "session", "ran", "raw", "returned"
  net,        \* every network operation made so far, in order
  result,     \* what the command returned to its caller
  stdResult,  \* what the standard layer's function returned
  served,     \* what the server answered to the standard SELECT and UID FETCH
  rawArgs,    \* the arguments raw_fetch_messages was called with
  logoutErr,  \* a LOGOUT of the standard session failed
  \* --- the raw engine's connection ---
  wire,       \* bytes the server has sent and the client's socket has not read
  buf,        \* BufReader: bytes read from the socket, not yet consumed
  srv,        \* the server: "live", "silent" (sends nothing more) or "closed"
  mss,        \* the most bytes one socket read returns
  pending,    \* the tag of the command the server has not answered yet, or <<>>,
              \* and what it has sent in answer to the last command
  \* --- the raw engine's control state ---
  pc,         \* where the engine is (see the actions)
  tag,        \* the tag raw_send_and_wait / raw_parse_fetch_responses waits for
  line,       \* read_line: the part of the current line read so far
  response,   \* raw_send_and_wait: the text accumulated so far
  need,       \* read_exact: bytes of the literal still to read
  body,       \* read_exact: bytes of the literal read so far
  cur,        \* uid and flags parsed from the FETCH line whose literal is read
  raws,       \* raw_parse_fetch_responses: messages (Vec<RawFetchedMessage>)
  parseRes,   \* what raw_parse_fetch_responses returned
  \* --- observation of the engine (history, not program state) ---
  ann,        \* the last literal announcement and the input that followed it
  afterLit,   \* a literal has just been read in full, no later byte consumed
  seen,       \* the current or last raw_send_and_wait: tag, lines read, result
  \* --- the replay harness of the parser ---
  run,        \* 0: single replay; 1: first replay; 2: replay of the twin stream
  twin,       \* the canned stream without its UID-less literal responses
  first,      \* what the first replay returned
  \* --- a call of a function that needs no IMAP session ---
  call,       \* the function called and its argument
  ret         \* what it returned

ioVars == <<wire, buf, srv, mss, pending>>
engVars == <<pc, tag, line, response, need, body, cur, raws, parseRes>>
obsVars == <<ann, afterLit, seen>>
harnessVars == <<run, twin, first>>
argVars == <<op, uids, since_uid, flags, add, cfg, payload>>
fnVars == <<call, ret>>

cmdVars == <<fnVars, argVars, cpc, net, result, stdResult, served, rawArgs,
             logoutErr>>

vars == <<cmdVars, ioVars, engVars, obsVars, harnessVars>>

\* ------------------------------------------------------------------------
\* Results
\* ------------------------------------------------------------------------

NoResult == [kind |-> "none", pre |-> "", arg |-> <<>>, val |-> <<>>]

\* Ok(v)
Ok(v) == [kind |-> "ok", pre |-> "", arg |-> <<>>, val |-> v]

\* Err(format!("<pre>{arg}")): an error string is its format's literal text and
\* the value formatted into it.
Err(p, a) == [kind |-> "err", pre |-> p, arg |-> a, val |-> <<>>]

NoAnn ==
  [n |-> None, uid |-> None, rest |-> <<>>, raws |-> <<>>, pushed |-> FALSE,
   closing |-> <<>>]

\* Option<i64> of a timestamp.  The i64 is days * 86400 + secs; the two terms
\* are kept apart because the product of a late year leaves the integers of
\* the checker, while the i64 of the program holds it.
NoTime == [some |-> FALSE, days |-> 0, secs |-> 0]

SomeTime(d, s) == [some |-> TRUE, days |-> d, secs |-> s]

NoCur == [uid |-> None, is_read |-> FALSE, is_starred |-> FALSE, is_draft |-> FALSE,
          internal_date |-> NoTime]

\* No command awaits an answer of the server.
NoPending == [tag |-> <<>>, n |-> 0, data |-> <<>>]

NoSeen == [tag |-> <<>>, lines |-> <<>>, res |-> NoResult]

NoCfg == [security |-> "", auth_method |-> ""]

NoArgs == [cfg |-> NoCfg, folder |-> <<>>, uid_range |-> <<>>]

NoServed == [exists |-> 0, items |-> <<>>, args |-> NoArgs]

\* No function is called outside a session.
NoCall == [fn |-> "none", arg |-> <<>>, cfg |-> NoCfg]

\* ------------------------------------------------------------------------
\* Text helpers
\* ------------------------------------------------------------------------

UpperCase == <<"A", "B", "C", "D", "E", "F", "G", "H", "I", "J", "K", "L", "M",
               "N", "O", "P", "Q", "R", "S", "T", "U", "V", "W", "X", "Y", "Z">>

LowerCase == <<"a", "b", "c", "d", "e", "f", "g", "h", "i", "j", "k", "l", "m",
               "n", "o", "p", "q", "r", "s", "t", "u", "v", "w", "x", "y", "z">>

\* str::to_lowercase on the letters of the model.
ToLowercase(s) ==
  [i \in 1..Len(s) |->
     IF \E k \in 1..26 : UpperCase[k] = s[i]
     THEN LowerCase[CHOOSE k \in 1..26 : UpperCase[k] = s[i]]
     ELSE s[i]]

\* str::split on one character: the parts between its occurrences, the empty
\* ones included.
RECURSIVE Split(_, _)
Split(s, c) ==
  LET i == Find(s, <<c>>)
  IN  IF i = 0 THEN <<s>> ELSE <<SubSeq(s, 1, i - 1)>> \o Split(Drop(s, i), c)

\* The length of the longest prefix of s without whitespace.
RECURSIVE WordLen(_)
WordLen(s) == IF s = <<>> \/ IsWhitespace(s[1]) THEN 0 ELSE 1 + WordLen(Tail(s))

\* str::split_whitespace: the maximal runs of characters that are not
\* whitespace.
RECURSIVE SplitWhitespace(_)
SplitWhitespace(s) ==
  LET t == TrimStart(s)
  IN  IF t = <<>> THEN <<>>
      ELSE <<Take(t, WordLen(t))>> \o SplitWhitespace(Drop(t, WordLen(t)))

\* str::parse for i64: an optional sign, then one or more digits.  A parsed
\* number is [ok |-> TRUE, n |-> value], a failed parse has ok FALSE.
ParseSigned(s) ==
  LET neg == Len(s) > 0 /\ s[1] = "-"
      ds == IF Len(s) > 0 /\ s[1] \in {"+", "-"} THEN Tail(s) ELSE s
  IN  IF ds = <<>> \/ \E i \in 1..Len(ds) : ~IsDigit(ds[i])
      THEN [ok |-> FALSE, n |-> 0]
      ELSE [ok |-> TRUE, n |-> IF neg THEN 0 - DigitsValue(ds) ELSE DigitsValue(ds)]

\* str::trim_start_matches(['+', '-'])
RECURSIVE TrimStartSigns(_)
TrimStartSigns(s) ==
  IF Len(s) > 0 /\ s[1] \in {"+", "-"} THEN TrimStartSigns(Tail(s)) ELSE s

\* ------------------------------------------------------------------------
\* parse_imap_date (imap/client.rs)
\* ------------------------------------------------------------------------

\* The match on the lower-cased month name: 1..12, 0 for the default arm.
MonthNames == << <<"j", "a", "n">>, <<"f", "e", "b">>, <<"m", "a", "r">>,
                 <<"a", "p", "r">>, <<"m", "a", "y">>, <<"j", "u", "n">>,
                 <<"j", "u", "l">>, <<"a", "u", "g">>, <<"s", "e", "p">>,
                 <<"o", "c", "t">>, <<"n", "o", "v">>, <<"d", "e", "c">> >>

MonthOf(name) ==
  IF \E k \in 1..12 : MonthNames[k] = name
  THEN CHOOSE k \in 1..12 : MonthNames[k] = name
  ELSE 0

\* A leap year every fourth year, the century rule left out.
IsLeapYearJulian(y) == y % 4 = 0

is_leap_year(y) == (y % 4 = 0 /\ y % 100 # 0) \/ (y % 400 = 0)

month_days == <<31, 28, 31, 30, 31, 30, 31, 31, 30, 31, 30, 31>>

\* for y in 1970..year { days += if is_leap_year(y) { 366 } else { 365 } }: the
\* sum over the years the loop visits (none when year <= 1970).
YearDays(year) ==
  LET visited == 1970..(year - 1)
  IN  365 * Cardinality(visited) + Cardinality({y \in visited : is_leap_year(y)})

\* for m in 1..month { days += month_days[m]; if m == 2 && leap { days += 1 } }
RECURSIVE MonthDays(_, _)
MonthDays(month, year) ==
  IF month <= 1 THEN 0
  ELSE MonthDays(month - 1, year) + month_days[month - 1]
       + (IF month - 1 = 2 /\ is_leap_year(year) THEN 1 ELSE 0)

\* The timezone part: sign * (hours * 3600 + minutes * 60) when four
\* characters follow the signs, otherwise 0; a part that is no number counts 0.
tz_offset_secs(parts) ==
  IF Len(parts) < 3 THEN 0
  ELSE LET tz == parts[3]
           sign == IF StartsWith(tz, <<"-">>) THEN -1 ELSE 1
           tz_num == TrimStartSigns(tz)
           tz_h == ParseSigned(Take(tz_num, 2))
           tz_m == ParseSigned(Drop(tz_num, 2))
       IN  IF Len(tz_num) = 4
           THEN sign * ((IF tz_h.ok THEN tz_h.n ELSE 0) * 3600
                        + (IF tz_m.ok THEN tz_m.n ELSE 0) * 60)
           ELSE 0

parse_imap_date(s) ==
  LET parts == SplitWhitespace(s)
      date_parts == Split(parts[1], "-")
      day == ParseUnsigned(date_parts[1])
      month == MonthOf(ToLowercase(date_parts[2]))
      year == ParseSigned(date_parts[3])
      time_parts == Split(parts[2], ":")
      hour == ParseSigned(time_parts[1])
      minute == ParseSigned(time_parts[2])
      second == ParseSigned(time_parts[3])
      days == YearDays(year.n) + MonthDays(month, year.n) + day - 1
  IN  IF Len(parts) < 2 THEN NoTime
      ELSE IF Len(date_parts) # 3 THEN NoTime
      ELSE IF day = None \/ month = 0 \/ ~year.ok THEN NoTime
      ELSE IF Len(time_parts) # 3 THEN NoTime
      ELSE IF ~hour.ok \/ ~minute.ok \/ ~second.ok THEN NoTime
      ELSE SomeTime(days, hour.n * 3600 + minute.n * 60 + second.n
                          - tz_offset_secs(parts))

\* extract_internal_date: parse_imap_date of the text between the first
\* 'INTERNALDATE "' and the next '"'; None when either is missing.
extract_internal_date(ln) ==
  LET idx == Find(ln, kINTERNALDATE)
      after == Drop(ln, idx + 13)
      end == Find(after, <<DQ>>)
  IN  IF idx = 0 \/ end = 0 THEN NoTime
      ELSE parse_imap_date(Take(after, end - 1))

\* ------------------------------------------------------------------------
\* Buffered reading (tokio BufReader over ImapStream)
\* ------------------------------------------------------------------------

ReadingLine == pc \in {"greeting", "wait", "fetch", "closing"}

ReadingExact == pc \in {"literal", "discard"}

HasLF(s) == \E i \in 1..Len(s) : s[i] = LF

\* String::from_utf8 of the bytes read_line collected.
Utf8Ok(s) == \A i \in 1..Len(s) : s[i] # BinByte

\* The input the engine has not consumed yet.
Remaining == buf \o wire

\* read_line can return: the buffer holds the end of the line, or the stream
\* is at end of file.
LineReady ==
  \/ buf # <<>> /\ HasLF(buf)
  \/ buf = <<>> /\ wire = <<>> /\ srv = "closed"

\* The line read_line returns when LineReady (empty: Ok(0), end of file).
GotLine == IF buf # <<>> THEN line \o Take(buf, Find(buf, <<LF>>)) ELSE line

\* The buffer after that line was consumed.
RestBuf == IF buf # <<>> THEN Drop(buf, Find(buf, <<LF>>)) ELSE <<>>

\* read_exact on a reader that would hand over whatever one fill returned.
ExactTakeAll(n, b) == Len(b)

\* read_exact: how many of the buffered bytes go to the literal.
ExactTake(n, b) == Min(n, Len(b))

\* poll_read on the socket, called when the BufReader is empty: the buffer is
\* filled with what the socket returns.
SocketRead ==
  /\ ReadingLine \/ ReadingExact
  /\ buf = <<>> /\ wire # <<>>
  /\ buf' = Take(wire, Min(mss, BufCap))
  /\ wire' = Drop(wire, Min(mss, BufCap))
  /\ UNCHANGED <<srv, mss, pending, engVars, obsVars, harnessVars, cmdVars>>

\* read_until: the buffer holds no line feed; it is appended to the line and
\* the read goes on.
LinePartial ==
  /\ ReadingLine
  /\ buf # <<>> /\ ~HasLF(buf)
  /\ line' = line \o buf
  /\ buf' = <<>>
  /\ afterLit' = FALSE
  /\ UNCHANGED <<wire, srv, mss, pending, pc, tag, seen, response, need, body, cur, raws,
                 parseRes, ann, harnessVars, cmdVars>>

\* ------------------------------------------------------------------------
\* raw_parse_fetch_responses
\* ------------------------------------------------------------------------

\* The function returns r to its caller.
ParseReturn(r) ==
  /\ pc' = "parsed"
  /\ parseRes' = r
  /\ UNCHANGED <<need, body, cur, raws, ann>>
  /\ afterLit' = FALSE

\* The loop goes to its next read_line.
ParseContinue ==
  /\ pc' = "fetch"
  /\ UNCHANGED <<need, body, cur, raws, parseRes, ann>>
  /\ afterLit' = FALSE

\* A variant that reads no literal for a response without UID.
ParseLiteralNoDiscard(ln, uid, size) ==
  /\ pc' = IF uid = 0 THEN "fetch" ELSE IF size > 0 THEN "literal" ELSE "closing"
  /\ need' = IF uid = 0 THEN need ELSE size
  /\ body' = <<>>
  /\ cur' = IF uid = 0 THEN cur
            ELSE [uid |-> uid,
                  is_read |-> Contains(extract_flags_from_fetch(ln), kSeen),
                  is_starred |-> Contains(extract_flags_from_fetch(ln), kFlagged),
                  is_draft |-> Contains(extract_flags_from_fetch(ln), kDraft),
                  internal_date |-> extract_internal_date(ln)]
  /\ ann' = [n |-> size, uid |-> uid, rest |-> RestBuf \o wire, raws |-> raws,
             pushed |-> FALSE, closing |-> <<>>]
  /\ afterLit' = (size = 0 /\ uid # 0)
  /\ UNCHANGED <<raws, parseRes>>

\* A literal of `size` bytes was announced by line ln; `uid` is 0 when the line
\* gave none.  read_exact of zero bytes returns at once.
ParseLiteral(ln, uid, size) ==
  /\ pc' = IF size > 0 THEN (IF uid = 0 THEN "discard" ELSE "literal")
           ELSE (IF uid = 0 THEN "fetch" ELSE "closing")
  /\ need' = size
  /\ body' = <<>>
  /\ cur' = IF uid = 0 THEN cur
            ELSE [uid |-> uid,
                  is_read |-> Contains(extract_flags_from_fetch(ln), kSeen),
                  is_starred |-> Contains(extract_flags_from_fetch(ln), kFlagged),
                  is_draft |-> Contains(extract_flags_from_fetch(ln), kDraft),
                  internal_date |-> extract_internal_date(ln)]
  /\ ann' = [n |-> size, uid |-> uid, rest |-> RestBuf \o wire, raws |-> raws,
             pushed |-> FALSE, closing |-> <<>>]
  /\ afterLit' = (size = 0)
  /\ UNCHANGED <<raws, parseRes>>

\* One turn of the loop: read_line under the 60 s deadline returned.
LineFetch ==
  /\ pc = "fetch" /\ LineReady
  /\ buf' = RestBuf
  /\ line' = <<>>
  /\ LET ln == GotLine
         uid == IF extract_fetch_uid(ln) = None THEN 0 ELSE extract_fetch_uid(ln)
         size == extract_literal_size(ln)
     IN  IF ~Utf8Ok(ln) THEN ParseReturn(Err("FETCH read: ", <<>>))
         ELSE IF ln = <<>> THEN ParseReturn(Err("Connection closed during FETCH", <<>>))
         ELSE IF StartsWith(ln, tag \o kOK) THEN ParseReturn(Ok(raws))
         ELSE IF StartsWith(ln, tag \o kNO) \/ StartsWith(ln, tag \o kBAD)
           THEN ParseReturn(Err("FETCH failed: ", ln))
         ELSE IF ~StartsWith(ln, kStar) \/ ~Contains(ln, kFETCH) THEN ParseContinue
         ELSE IF size = None THEN ParseContinue
         ELSE ParseLiteral(ln, uid, size)
  /\ UNCHANGED <<wire, srv, mss, pending, tag, seen, response, harnessVars, cmdVars>>

\* A variant that reads the literal as text: it ends at the first line feed.
ExactStepByLine ==
  /\ ReadingExact
  /\ buf # <<>>
  /\ LET k == IF HasLF(buf) THEN Min(need, Find(buf, <<LF>>)) ELSE ExactTake(need, buf)
         done == need <= k \/ buf[k] = LF
     IN  /\ body' = body \o Take(buf, k)
         /\ buf' = Drop(buf, k)
         /\ need' = IF need > k THEN need - k ELSE 0
         /\ pc' = IF ~done THEN pc
                  ELSE IF pc = "literal" THEN "closing" ELSE "fetch"
         /\ afterLit' = done
  /\ UNCHANGED <<wire, srv, mss, pending, tag, seen, line, response, cur, raws, parseRes,
                 ann, harnessVars, cmdVars>>

\* read_exact: buffered bytes go to the literal (the body, or the discard
\* vector of a response without UID); when none is missing the literal is done.
ExactStep ==
  /\ ReadingExact
  /\ buf # <<>>
  /\ LET k == ExactTake(need, buf)
     IN  /\ body' = body \o Take(buf, k)
         /\ buf' = Drop(buf, k)
         /\ need' = IF need > k THEN need - k ELSE 0
         /\ pc' = IF need > k THEN pc
                  ELSE IF pc = "literal" THEN "closing" ELSE "fetch"
         /\ afterLit' = (need <= k)
  /\ UNCHANGED <<wire, srv, mss, pending, tag, seen, line, response, cur, raws, parseRes,
                 ann, harnessVars, cmdVars>>

\* read_exact meets the end of the stream: UnexpectedEof, passed on with `?`.
ExactEof ==
  /\ ReadingExact
  /\ buf = <<>> /\ wire = <<>> /\ srv = "closed"
  /\ IF pc = "literal"
       THEN ParseReturn(Err("read literal for UID ", Dec(cur.uid)))
       ELSE ParseReturn(Err("discard literal: ", <<>>))
  /\ UNCHANGED <<ioVars, tag, seen, line, response, harnessVars, cmdVars>>

\* The read_line after a body: its result is ignored, then the message is
\* pushed.
LineClosing ==
  /\ pc = "closing" /\ LineReady
  /\ buf' = RestBuf
  /\ line' = <<>>
  /\ raws' = Append(raws, [uid |-> cur.uid, is_read |-> cur.is_read,
                           is_starred |-> cur.is_starred, is_draft |-> cur.is_draft,
                           internal_date |-> cur.internal_date,
                           body |-> body])
  /\ pc' = "fetch"
  /\ ann' = [ann EXCEPT !.pushed = TRUE, !.closing = GotLine]
  /\ afterLit' = FALSE
  /\ UNCHANGED <<wire, srv, mss, pending, tag, seen, response, need, body, cur, parseRes,
                 harnessVars, cmdVars>>

\* tokio::time::timeout(60 s, read_line) in the loop: no byte arrives in time.
TimeoutFetch ==
  /\ pc = "fetch"
  /\ buf = <<>> /\ wire = <<>> /\ srv # "closed"
  /\ line' = <<>>
  /\ ParseReturn(Err("FETCH timeout", <<>>))
  /\ UNCHANGED <<ioVars, tag, seen, response, harnessVars, cmdVars>>

\* ------------------------------------------------------------------------
\* Replaying canned server streams into raw_parse_fetch_responses
\* ------------------------------------------------------------------------

\* "a3 OK\r\n": as a line it ends the FETCH; it is also used as a body.
TagOkLine == TagA3 \o kOK \o CRLF

TagNoLine == TagA3 \o kNO \o CRLF

\* "a3 NO\r\na3 BAD\r\n": two lines that would fail the FETCH.
BodyNoBad == TagNoLine \o TagA3 \o kBAD \o CRLF

\* "* 2 FETCH (UID 9 {1}\r\n": a line that would announce a message.
BodyFetch ==
  kStar \o <<"2", SP>> \o kFETCH \o <<SP, "(">> \o kUID \o <<"9", SP, "{", "1", "}">> \o CRLF

\* Message bodies: empty, one byte that is not text, a line feed first, and
\* bodies longer than any socket read of the harness that read like the tagged
\* line, like failing tagged lines and like a FETCH response.
Bodies == {<<>>, <<BinByte>>, <<LF, "x">>, TagOkLine, BodyNoBad, BodyFetch}

\* "* 1 FETCH (UID <uid> {N}\r\n" body ")\r\n"
SegMsg(uid, b) ==
  kStar \o <<"1", SP>> \o kFETCH \o <<SP, "(">> \o kUID \o Dec(uid) \o <<SP, "{">>
    \o Dec(Len(b)) \o <<"}">> \o CRLF \o b \o <<")">> \o CRLF

\* "* 1 FETCH (UID <uid> FLAGS (\Seen \Flagged) {N}\r\n" body ")\r\n"
SegMsgFlags(uid, b) ==
  kStar \o <<"1", SP>> \o kFETCH \o <<SP, "(">> \o kUID \o Dec(uid) \o <<SP>>
    \o kFLAGS \o kSeen \o <<SP>> \o kFlagged \o <<")", SP, "{">>
    \o Dec(Len(b)) \o <<"}">> \o CRLF \o b \o <<")">> \o CRLF

\* "* 2 FETCH ({N}\r\n" body ")\r\n": a response the engine finds no UID in.
SegNoUid(b) ==
  kStar \o <<"2", SP>> \o kFETCH \o <<SP, "(", "{">> \o Dec(Len(b)) \o <<"}">> \o CRLF
    \o b \o <<")">> \o CRLF

\* "* 3 FETCH (UID 7)\r\n": a FETCH response without a literal.
SegBare == kStar \o <<"3", SP>> \o kFETCH \o <<SP, "(">> \o kUID \o <<"7", ")">> \o CRLF

\* "* 4 EXISTS\r\n": an untagged line that is no FETCH response.
SegOther == kStar \o <<"4", SP>> \o kEXISTS \o CRLF

\* "* 1 FETCH (UID 7 {1}\r\nx" 0xFF ")\r\n": the line after the body is not
\* UTF-8, so the read_line that takes it fails.
SegBadClosing ==
  kStar \o <<"1", SP>> \o kFETCH \o <<SP, "(">> \o kUID \o <<"7", SP, "{", "1", "}">>
    \o CRLF \o <<"x", BinByte, ")">> \o CRLF

\* A segment is its bytes and whether it is a UID-less literal response.
Segments ==
  {[bytes |-> SegMsg(7, b), nouid |-> FALSE] : b \in Bodies}
    \cup {[bytes |-> SegMsgFlags(12, <<"x">>), nouid |-> FALSE]}
    \cup {[bytes |-> SegNoUid(b), nouid |-> TRUE] : b \in {<<>>, TagOkLine}}
    \cup {[bytes |-> SegBare, nouid |-> FALSE], [bytes |-> SegOther, nouid |-> FALSE],
          [bytes |-> SegBadClosing, nouid |-> FALSE]}

SegLists == UNION {[1..n -> Segments] : n \in 0..MaxItems}

\* "* 1 FETCH (UID 7 {2}\r\n" "x": a literal the stream ends in the middle of.
SegCut ==
  kStar \o <<"1", SP>> \o kFETCH \o <<SP, "(">> \o kUID \o <<"7", SP, "{", "2", "}">>
    \o CRLF \o <<"x">>

\* What follows the segments: the tagged OK, a tagged NO, nothing, or a
\* literal that is cut short.
Endings == {TagOkLine, TagNoLine, <<>>, SegCut}

RECURSIVE Flatten(_, _)
Flatten(segs, keepNoUid) ==
  IF segs = <<>> THEN <<>>
  ELSE (IF Head(segs).nouid /\ ~keepNoUid THEN <<>> ELSE Head(segs).bytes)
         \o Flatten(Tail(segs), keepNoUid)

InitParse ==
  \E segs \in SegLists, end \in Endings :
    /\ wire = Flatten(segs, TRUE) \o end
    /\ twin = Flatten(segs, FALSE) \o end
    /\ run = IF \E i \in 1..Len(segs) : segs[i].nouid THEN 1 ELSE 0
    /\ buf = <<>>
    /\ srv \in {"silent", "closed"}
    /\ mss \in 1..MaxChunk
    /\ pending = NoPending
    /\ pc = "fetch"
    /\ tag = TagA3
    /\ line = <<>>
    /\ response = <<>>
    /\ need = 0
    /\ body = <<>>
    /\ cur = NoCur
    /\ raws = <<>>
    /\ parseRes = NoResult
    /\ ann = NoAnn
    /\ afterLit = FALSE
    /\ first = NoResult
    /\ seen = NoSeen
    /\ op = "none" /\ uids = <<>> /\ cfg = NoCfg /\ payload = <<>>
    /\ since_uid = 0 /\ flags = <<>> /\ add = FALSE
    /\ cpc = "idle" /\ net = <<>> /\ result = NoResult /\ stdResult = NoResult
    /\ served = NoServed /\ rawArgs = NoArgs /\ logoutErr = FALSE
    /\ call = NoCall /\ ret = NoResult

\* The first replay has returned: the twin stream is replayed into a fresh
\* call of the function.
Replay ==
  /\ run = 1 /\ pc = "parsed"
  /\ run' = 2
  /\ first' = parseRes
  /\ wire' = twin
  /\ buf' = <<>>
  /\ pc' = "fetch"
  /\ line' = <<>>
  /\ need' = 0
  /\ body' = <<>>
  /\ cur' = NoCur
  /\ raws' = <<>>
  /\ parseRes' = NoResult
  /\ ann' = NoAnn
  /\ afterLit' = FALSE
  /\ UNCHANGED <<srv, mss, pending, tag, seen, response, twin, cmdVars>>

NextParse ==
  \/ SocketRead
  \/ LinePartial
  \/ LineFetch
  \/ ExactStep
  \/ ExactEof
  \/ LineClosing
  \/ TimeoutFetch
  \/ Replay

SpecParse == InitParse /\ [][NextParse]_vars

\* ------------------------------------------------------------------------
\* The public commands (commands.rs) over the standard layer
\* ------------------------------------------------------------------------

\* The folder argument of the commands.
Folder == <<"I", "N", "B", "O", "X">>

\* A network operation: a step of connecting ("conn"), a command written
\* ("send"), a tagged answer read by the raw engine ("ok", "no"), on the
\* standard session ("std") or the raw engine's connection ("raw").
Ev(kind, conn, what) == [kind |-> kind, conn |-> conn, tag |-> <<>>, what |-> what]

\* The same for a tagged command of the raw engine.
EvT(kind, t, what) == [kind |-> kind, conn |-> "raw", tag |-> t, what |-> what]

\* The commands that take a UID list and return early on an empty one.
UidOps == {"imap_fetch_messages", "imap_set_flags", "imap_move_messages",
           "imap_delete_messages"}

\* The commands whose standard-layer function is a plain chain of steps.
ChainOps == {"imap_test_connection", "imap_list_folders", "imap_fetch_new_uids",
             "imap_search_all_uids", "imap_fetch_message_body", "imap_fetch_raw_message",
             "imap_set_flags", "imap_move_messages", "imap_delete_messages",
             "imap_get_folder_status", "imap_fetch_attachment", "imap_append_message"}

Ops == ChainOps \cup {"imap_fetch_messages"}

\* uids.iter().map(to_string).collect().join(",")
RECURSIVE UidSet(_)
UidSet(us) ==
  IF us = <<>> THEN <<>>
  ELSE IF Len(us) = 1 THEN Dec(us[1])
  ELSE Dec(us[1]) \o <<",">> \o UidSet(Tail(us))

\* base64url alphabet (URL_SAFE_NO_PAD): letters, digits, '-' and '_'; the
\* model's payloads use the bytes below.
IsB64UrlChar(c) == c \in {"Y", "Q", "-", "_"} \/ IsDigit(c)

\* base64url_decode succeeds: every byte is of the alphabet (no padding, no
\* '+' or '/') and the length is not 1 modulo 4.  The payloads of the model
\* are canonical in their last symbol.
Base64UrlOk(s) == (\A i \in 1..Len(s) : IsB64UrlChar(s[i])) /\ Len(s) % 4 # 1

\* One step of a standard-layer function: the command it sends ("" for a step
\* that talks to no one), the literal head of its error text, and what a
\* failure does: "must" returns the error, "try" returns Ok
\* on success and goes on to the next step on failure.
Step(cmd, pre, mode) == [cmd |-> cmd, pre |-> pre, mode |-> mode]

Select == Step("SELECT", "SELECT ", "must")

OpSteps(o) ==
  CASE o = "imap_test_connection" -> <<Step("LIST", "LIST failed: ", "must")>>
    [] o = "imap_list_folders" ->
         <<Step("LIST", "LIST failed: ", "must")>>
    [] o = "imap_fetch_new_uids" ->
         <<Select, Step("UID SEARCH", "UID SEARCH failed: ", "must")>>
    [] o = "imap_search_all_uids" ->
         <<Select, Step("UID SEARCH", "UID SEARCH ALL failed: ", "must")>>
    [] o = "imap_fetch_message_body" ->
         <<Select, Step("UID FETCH", "UID FETCH failed: ", "must"),
           Step("", "Message UID ", "must"), Step("", "No body for UID ", "must"),
           Step("", "Failed to parse MIME message", "must")>>
    [] o = "imap_fetch_raw_message" ->
         <<Select, Step("UID FETCH", "UID FETCH failed: ", "must"),
           Step("", "Message UID ", "must"), Step("", "No body for UID ", "must")>>
    [] o = "imap_set_flags" ->
         <<Select, Step("UID STORE", "UID STORE failed: ", "must")>>
    [] o = "imap_move_messages" ->
         <<Select, Step("UID MOVE", "", "try"),
           Step("UID COPY", "UID COPY failed: ", "must"),
           Step("UID STORE", "UID STORE +Deleted failed: ", "must"),
           Step("EXPUNGE", "EXPUNGE failed: ", "must")>>
    [] o = "imap_delete_messages" ->
         <<Select, Step("UID STORE", "UID STORE +Deleted failed: ", "must"),
           Step("EXPUNGE", "EXPUNGE failed: ", "must")>>
    [] o = "imap_get_folder_status" -> <<Step("STATUS", "STATUS failed: ", "must")>>
    [] o = "imap_fetch_attachment" ->
         <<Select, Step("UID FETCH", "UID FETCH attachment failed: ", "must"),
           Step("", "No response for UID ", "must"),
           Step("", "No body data for part ", "must")>>
    [] o = "imap_append_message" ->
         <<Step("", "base64url decode failed: ", "must"),
           Step("APPEND", "APPEND failed: ", "must")>>

\* The commands whose responses are read after the call returned, by
\* `let _: Vec<_> = stream.collect().await`: what the stream reports is
\* dropped.
Drained == {"UID STORE", "EXPUNGE"}

\* How a step can end: "ok"; "failed", the call returned an error;
\* "discarded", the command was not carried out and only the drained stream
\* of its responses told so.
Outcomes(st) ==
  IF st.cmd \in Drained THEN {"ok", "failed", "discarded"} ELSE {"ok", "failed"}

\* A command of a step and whether the server carried it out.
Exchange(st, out) ==
  IF st.cmd = "" THEN <<>>
  ELSE <<Ev("send", "std", st.cmd), Ev(IF out = "ok" THEN "ok" ELSE "no", "std", st.cmd)>>

\* Running steps i.. of `steps` when step k ends as outs[k]: the commands
\* sent, each with its answer, and the result.
RECURSIVE RunSteps(_, _, _)
RunSteps(steps, outs, i) ==
  IF i > Len(steps) THEN [sent |-> <<>>, res |-> Ok(<<>>)]
  ELSE LET st == steps[i]
           me == Exchange(st, outs[i])
           rest == RunSteps(steps, outs, i + 1)
       IN  IF outs[i] # "failed"
             THEN IF st.mode = "try" THEN [sent |-> me, res |-> Ok(<<>>)]
                  ELSE [sent |-> me \o rest.sent, res |-> rest.res]
             ELSE IF st.mode = "must" THEN [sent |-> me, res |-> Err(st.pre, <<>>)]
                  ELSE [sent |-> me \o rest.sent, res |-> rest.res]

\* A connect that authenticates on the plain socket and secures it after.
ConnectPhasesAuthFirst(c) ==
  LET auth == IF c.auth_method = "oauth2" THEN "AUTHENTICATE" ELSE "LOGIN"
  IN  CASE c.security = "starttls" ->
             <<"TCP", "greeting", auth, "STARTTLS", "STARTTLS response", "TLS">>
        [] c.security = "tls" -> <<"TCP", auth, "TLS">>
        [] c.security = "none" -> <<"TCP", auth>>
        [] OTHER -> <<>>

\* The phases of connect(config) that touch the network, in order; none for
\* a security mode that is not known.  Any auth_method but "oauth2" is LOGIN.
ConnectPhases(c) ==
  CASE c.security = "starttls" ->
         <<"TCP", "greeting", "STARTTLS", "STARTTLS response", "TLS",
           IF c.auth_method = "oauth2" THEN "AUTHENTICATE" ELSE "LOGIN">>
    [] c.security = "tls" ->
         <<"TCP", "TLS", IF c.auth_method = "oauth2" THEN "AUTHENTICATE" ELSE "LOGIN">>
    [] c.security = "none" ->
         <<"TCP", IF c.auth_method = "oauth2" THEN "AUTHENTICATE" ELSE "LOGIN">>
    [] OTHER -> <<>>

\* The literal head of the error of each phase.
ConnectErr(c, phase) ==
  CASE phase = "TCP" -> "TCP connect to "
    [] phase = "greeting" -> "Unexpected server greeting: "
    [] phase = "STARTTLS" -> "Failed to send STARTTLS: "
    [] phase = "STARTTLS response" -> "STARTTLS rejected: "
    [] phase = "TLS" -> IF c.security = "starttls" THEN "TLS upgrade after STARTTLS failed: "
                        ELSE "TLS handshake with "
    [] phase = "AUTHENTICATE" -> "XOAUTH2 authentication failed: "
    [] phase = "LOGIN" -> "Login failed: "

\* "OK", the text both STARTTLS paths look for.
kOKText == <<"O", "K">>

\* The tags of the STARTTLS command: "a001" in connect_starttls, "a0" in
\* raw_connect_starttls.
TagA001 == <<"a", "0", "0", "1">>

TagA0 == <<"a", "0">>

\* config.host
Host == <<"h">>

\* What the one read after TCP connect can return: "* OK\r\n" or
\* "* BYE\r\n".
Greetings == {"* OK", "* BYE"}

GreetingText(g) ==
  IF g = "* OK" THEN kStar \o kOKText \o CRLF ELSE kStar \o <<"B", "Y", "E">> \o CRLF

\* What the one read after the STARTTLS command can return: the tagged OK,
\* the tagged NO, and a tagged NO whose text holds the letters OK
\* ("<tag> NO TOKEN\r\n").
Replies == {"tagged OK", "tagged NO", "tagged NO TOKEN"}

ReplyText(t, r) ==
  CASE r = "tagged OK" -> t \o kOK \o CRLF
    [] r = "tagged NO" -> t \o kNO \o CRLF
    [] r = "tagged NO TOKEN" -> t \o kNO \o <<SP, "T", "O", "K", "E", "N">> \o CRLF

\* !text.contains("OK") is false: the check both STARTTLS paths make of what
\* they read.
Affirmative(text) == Contains(text, kOKText)

\* The phases that read from the socket and look at what they read.
ReadPhases == {"greeting", "STARTTLS response"}

\* The text error of a read that failed.
ReadErr(phase) ==
  IF phase = "greeting" THEN "Failed to read server greeting: "
  ELSE "Failed to read STARTTLS response: "

\* The host as the error text of a phase shows it: config.host is formatted
\* into the errors of TCP connect and of the TLS handshake of connect_stream.
ErrHost(c, phase) ==
  IF phase = "TCP" \/ (phase = "TLS" /\ c.security = "tls") THEN Host ELSE <<>>

\* Phase `phase` of connect_starttls lets the connect go on after reading
\* greeting g, and reply r to STARTTLS.
PhasePasses(phase, g, r) ==
  /\ phase = "greeting" => Affirmative(GreetingText(g))
  /\ phase = "STARTTLS response" => Affirmative(ReplyText(TagA001, r))

\* The log of one phase: the step, and what a read returned (nothing when
\* the read failed).
PhaseEvents(conn, phase, g, r, io) ==
  <<Ev("conn", conn, phase)>> \o
    (IF phase \in ReadPhases /\ ~io
       THEN <<Ev("read", conn, IF phase = "greeting" THEN g ELSE r)>>
       ELSE <<>>)

\* The log of phases 1..k, the read of phase k failing when io.
ConnEvents(conn, phases, k, g, r, io) ==
  Concat([i \in 1..k |-> PhaseEvents(conn, phases[i], g, r, io /\ i = k)])

\* A command that would open its connection whatever the UID list is.
EmptyUidsIgnored(o, us) == FALSE

\* uids.is_empty() at the head of a UID command.
EmptyUids(o, us) == o \in UidOps /\ us = <<>>

\* The command returns r to its caller.
Return(r) ==
  /\ result' = r
  /\ cpc' = "returned"

\* The early return of the UID commands on an empty list.
EmptyUidReturn ==
  /\ cpc = "start"
  /\ EmptyUids(op, uids)
  /\ Return(IF op = "imap_fetch_messages" THEN Err("No UIDs provided", <<>>) ELSE Ok(<<>>))
  /\ UNCHANGED <<fnVars, argVars, net, stdResult, served, rawArgs, logoutErr>>
  /\ UNCHANGED <<ioVars, engVars, obsVars, harnessVars>>

\* The byte 0x01 that separates the fields of an XOAUTH2 response.
SOH == "0x01"

\* config.username and config.password (the access token).
Username == <<"u">>

Password == <<"t">>

\* XOAuth2::new: the bytes of "user={user}\x01auth=Bearer {token}\x01\x01".
XOAuth2New(user, access_token) ==
  [response |-> <<"u", "s", "e", "r", "=">> \o user \o <<SOH>>
                  \o <<"a", "u", "t", "h", "=", "B", "e", "a", "r", "e", "r", SP>>
                  \o access_token \o <<SOH, SOH>>]

\* An authenticator that keeps its response after giving it.
ProcessKeeps(auth) == [out |-> auth.response, auth |-> auth]

\* XOAuth2::process: std::mem::take(&mut self.response) gives the response
\* and leaves an empty one.
Process(auth) == [out |-> auth.response, auth |-> [response |-> <<>>]]

\* An answer of the authenticator, as sent to the server.
EvAnswer(bytes) == [kind |-> "answer", conn |-> "std", tag |-> bytes, what |-> "AUTHENTICATE"]

\* The answers to n challenges, one call of process for each.
RECURSIVE Answers(_, _)
Answers(auth, n) ==
  IF n = 0 THEN <<>>
  ELSE <<EvAnswer(Process(auth).out)>> \o Answers(Process(auth).auth, n - 1)

\* authenticate: with auth_method "oauth2" a new XOAuth2 answers the n
\* challenges of the exchange; LOGIN has none.
AuthLog(c, n) ==
  IF c.auth_method = "oauth2" THEN Answers(XOAuth2New(Username, Password), n) ELSE <<>>

\* imap_client::connect(&config).await?: the phases run in order until one
\* fails; an unknown security mode fails before any of them.  A phase that
\* reads fails when the read fails or the text lacks "OK".  A server accepts
\* XOAUTH2 after the first answer, and refuses it after any number of
\* challenges.
Connect ==
  /\ cpc = "start"
  /\ ~EmptyUids(op, uids)
  /\ LET phases == ConnectPhases(cfg)
     IN  \/ /\ phases = <<>>
            /\ Return(Err("Unknown security mode: ", <<cfg.security>>))
            /\ UNCHANGED net
         \/ \E k \in 1..Len(phases), g \in Greetings, r \in Replies, io \in BOOLEAN,
               n \in 0..MaxChallenges :
              /\ \A i \in 1..(k - 1) : PhasePasses(phases[i], g, r)
              /\ io \/ phases[k] \notin ReadPhases \/ ~PhasePasses(phases[k], g, r)
              /\ net' = net \o ConnEvents("std", phases, k, g, r, io)
                            \o (IF k = Len(phases) THEN AuthLog(cfg, n) ELSE <<>>)
              /\ Return(Err(IF io /\ phases[k] \in ReadPhases THEN ReadErr(phases[k])
                            ELSE ConnectErr(cfg, phases[k]),
                            ErrHost(cfg, phases[k])))
         \/ \E g \in Greetings, r \in Replies :
              /\ phases # <<>>
              /\ \A i \in 1..Len(phases) : PhasePasses(phases[i], g, r)
              /\ net' = Append(net \o ConnEvents("std", phases, Len(phases), g, r, FALSE)
                                   \o AuthLog(cfg, 1),
                               Ev("conn", "std", "session"))
              /\ cpc' = "session"
              /\ UNCHANGED result
  /\ UNCHANGED <<fnVars, argVars, stdResult, served, rawArgs, logoutErr>>
  /\ UNCHANGED <<ioVars, engVars, obsVars, harnessVars>>

\* The commands that return the UIDs of a search.
SearchOps == {"imap_fetch_new_uids", "imap_search_all_uids"}

\* The UIDs a server's answer to UID SEARCH is made of, and the values of
\* since_uid: one of them, and 0.
SearchUids == {6, 7, 8}

SinceUids == {0, 7}

\* uids.into_iter(): the set uid_search returned (a HashSet<u32>), in any
\* order.
Orders(S) ==
  {s \in [1..Cardinality(S) -> S] : \A i, j \in 1..Cardinality(S) : s[i] = s[j] => i = j}

SearchAnswers == UNION {Orders(S) : S \in SUBSET SearchUids}

\* A sort that leaves the vector as it is.
SortNot(s) == s

\* result.sort(): ascending.
RECURSIVE Sort(_)
Sort(s) ==
  IF s = <<>> THEN <<>>
  ELSE LET rest == Sort(Tail(s))
           low == SelectSeq(rest, LAMBDA u : u < Head(s))
           high == SelectSeq(rest, LAMBDA u : u >= Head(s))
       IN  low \o <<Head(s)>> \o high

\* A filter that keeps last_uid itself.
FilterNewKeepsLast(its, last_uid) == SelectSeq(its, LAMBDA u : u >= last_uid)

\* uids.into_iter().filter(|&u| u > last_uid)
FilterNew(its, last_uid) == SelectSeq(its, LAMBDA u : u > last_uid)

\* What fetch_new_uids and search_all_uids return for the answer `its`.
SearchResult(o, its, last_uid) ==
  IF o = "imap_fetch_new_uids" THEN Sort(FilterNew(its, last_uid)) ELSE Sort(its)

\* The flag names of the model: "Seen", "\Seen" and "\Flagged".
FlagNames == {<<"S", "e", "e", "n">>, kSeen, kFlagged}

FlagLists == UNION {[1..n -> FlagNames] : n \in 0..MaxFlags}

\* An encoding that puts a backslash before every name.
EncodeFlagAlways(f) == <<BSL>> \o f

\* if f.starts_with('\\') { f.clone() } else { format!("\\{f}") }
EncodeFlag(f) == IF StartsWith(f, <<BSL>>) THEN f ELSE <<BSL>> \o f

\* .join(sep)
RECURSIVE Join(_, _)
Join(ss, sep) ==
  IF ss = <<>> THEN <<>>
  ELSE IF Len(ss) = 1 THEN ss[1]
  ELSE ss[1] \o sep \o Join(Tail(ss), sep)

\* format!("({})", flags.iter().map(..).collect::<Vec<_>>().join(" "))
FlagsStr(fl) ==
  <<"(">> \o Join([i \in 1..Len(fl) |-> EncodeFlag(fl[i])], <<SP>>) \o <<")">>

\* if add { "+FLAGS" } else { "-FLAGS" }
FlagOp(a) == <<IF a THEN "+" ELSE "-", "F", "L", "A", "G", "S">>

\* set_flags: format!("{flag_op} {flags}"), the query of uid_store.
StoreQuery(flag_op, flags_str) == flag_op \o <<SP>> \o flags_str

\* The events of a chain, the text of command cmd put on its send event.
WithText(evs, cmd, text) ==
  [i \in 1..Len(evs) |->
     IF evs[i].kind = "send" /\ evs[i].what = cmd THEN [evs[i] EXCEPT !.tag = text]
     ELSE evs[i]]

\* The body of a chain command on its session.  Every command but
\* imap_fetch_messages passes a failure on with `?`, before its logout.  The
\* search commands return the UIDs of the answer, imap_set_flags sends the
\* query it made of its flags.
\* ------------------------------------------------------------------------
\* list_folders (standard layer)
\* ------------------------------------------------------------------------

\* A character of two bytes in UTF-8.
EAcute == "U+00E9"

\* The bytes of a sequence of 6-bit values: three of every four values, and
\* one or two of a last group of two or three.
RECURSIVE B64Bytes(_)
B64Bytes(v) ==
  IF Len(v) >= 4
    THEN <<v[1] * 4 + v[2] \div 16, (v[2] % 16) * 16 + v[3] \div 4, (v[3] % 4) * 64 + v[4]>>
         \o B64Bytes(Drop(v, 4))
  ELSE IF Len(v) = 3 THEN <<v[1] * 4 + v[2] \div 16, (v[2] % 16) * 16 + v[3] \div 4>>
  ELSE IF Len(v) = 2 THEN <<v[1] * 4 + v[2] \div 16>>
  ELSE <<>>

\* The alphabet of the base64 of modified UTF-7: ',' in place of '/'.
MB64 == UpperCase \o LowerCase \o Digits \o <<"+", ",">>

MB64Val(c) == (CHOOSE k \in 1..64 : MB64[k] = c) - 1

\* The characters of UTF-16 code units given as bytes, high byte first.
RECURSIVE Utf16Chars(_)
Utf16Chars(bytes) ==
  IF Len(bytes) < 2 THEN <<>>
  ELSE <<(IF bytes[1] * 256 + bytes[2] = 233 THEN EAcute ELSE "?")>>
       \o Utf16Chars(Drop(bytes, 2))

\* utf7_imap::decode_utf7_imap: "&-" is '&', "&...-" is the UTF-16 text its
\* base64 holds, every other character is itself.
RECURSIVE decode_utf7_imap(_)
decode_utf7_imap(s) ==
  IF s = <<>> THEN <<>>
  ELSE IF s[1] # "&" THEN <<s[1]>> \o decode_utf7_imap(Tail(s))
  ELSE LET end == Find(s, <<"-">>)
       IN  IF end = 0 THEN s
           ELSE IF end = 2 THEN <<"&">> \o decode_utf7_imap(Drop(s, 2))
           ELSE Utf16Chars(B64Bytes([i \in 1..(end - 2) |-> MB64Val(s[i + 1])]))
                \o decode_utf7_imap(Drop(s, end))

\* What the LIST stream yields for one mailbox: a Name (raw path, hierarchy
\* delimiter or <<>> for none), or an error.
ListError == [kind |-> "error", raw |-> <<>>, delimiter |-> <<>>]

Name(raw, delimiter) == [kind |-> "name", raw |-> raw, delimiter |-> delimiter]

ListItems ==
  {Name(<<"I", "N", "B", "O", "X">>, <<"/">>),
   Name(<<"A", "/", "C", "a", "f", "&", "A", "O", "k", "-">>, <<"/">>),
   Name(<<"A", "&", "-", "B">>, <<>>),
   ListError}

ListAnswers == UNION {[1..n -> ListItems] : n \in 0..MaxFolders}

\* What STATUS gives for one mailbox: a failure, or the counts (unseen -1
\* when the server reports none).
StatusFailed == [ok |-> FALSE, exists |-> 0, unseen |-> None]

StatusAnswers == {StatusFailed, [ok |-> TRUE, exists |-> 3, unseen |-> 1],
                  [ok |-> TRUE, exists |-> 3, unseen |-> None]}

\* A STATUS that names the mailbox by its decoded path.
StatusNameDecoded(name) == decode_utf7_imap(name.raw)

\* session.status(&raw_path, ...): the mailbox name of the command.
StatusName(name) == name.raw

\* path.rsplit_once(&delimiter).map(|(_, last)| last).unwrap_or(path)
DisplayName(path, delimiter) ==
  IF RFindChar(path, delimiter[1]) = 0 THEN path
  ELSE Drop(path, RFindChar(path, delimiter[1]))

\* The loop of list_folders over the names the stream yielded, STATUS of the
\* i-th ending as sts[i]: the commands sent with their answers, and the
\* folders pushed.
RECURSIVE ListLoop(_, _, _)
ListLoop(names, sts, i) ==
  IF i > Len(names) THEN [sent |-> <<>>, folders |-> <<>>]
  ELSE LET name == names[i]
           delimiter == IF name.delimiter = <<>> THEN <<"/">> ELSE name.delimiter
           path == decode_utf7_imap(name.raw)
           counts == IF sts[i].ok
                       THEN <<sts[i].exists, IF sts[i].unseen = None THEN 0 ELSE sts[i].unseen>>
                       ELSE <<0, 0>>
           rest == ListLoop(names, sts, i + 1)
       IN  [sent |-> <<[kind |-> "send", conn |-> "std", tag |-> StatusName(name),
                        what |-> "STATUS"],
                       Ev(IF sts[i].ok THEN "ok" ELSE "no", "std", "STATUS")>> \o rest.sent,
            folders |-> <<[path |-> path, raw_path |-> name.raw,
                           name |-> DisplayName(path, delimiter), delimiter |-> delimiter,
                           exists |-> counts[1], unseen |-> counts[2]]>> \o rest.folders]

\* filter_map(|r| r.ok()): the names of the stream, its errors dropped.
Names(items) == SelectSeq(items, LAMBDA it : it.kind = "name")

RunOp ==
  /\ cpc = "session"
  /\ op \in ChainOps
  /\ \E outs \in [1..Len(OpSteps(op)) -> {"ok", "failed", "discarded"}],
        its \in (IF op \in SearchOps THEN SearchAnswers
                 ELSE IF op = "imap_list_folders" THEN ListAnswers ELSE {<<>>}) :
     \E sts \in [1..Len(IF op = "imap_list_folders" THEN Names(its) ELSE <<>>)
                   -> StatusAnswers] :
       /\ \A i \in 1..Len(OpSteps(op)) : outs[i] \in Outcomes(OpSteps(op)[i])
       /\ op = "imap_append_message" => (outs[1] = "ok" <=> Base64UrlOk(payload))
       /\ LET r == RunSteps(OpSteps(op), outs, 1)
              answered == r.res.kind = "ok" /\ op \in SearchOps
              listed == r.res.kind = "ok" /\ op = "imap_list_folders"
              loop == ListLoop(Names(its), sts, 1)
          IN  /\ net' = net \o (IF op = "imap_set_flags"
                                  THEN WithText(r.sent, "UID STORE",
                                                StoreQuery(FlagOp(add), FlagsStr(flags)))
                                  ELSE IF listed THEN r.sent \o loop.sent
                                  ELSE r.sent)
              /\ stdResult' = IF answered THEN Ok(SearchResult(op, its, since_uid))
                               ELSE IF listed THEN Ok(loop.folders)
                               ELSE r.res
              /\ served' = IF answered \/ listed THEN [NoServed EXCEPT !.items = its]
                            ELSE served
              /\ IF r.res.kind = "err" THEN Return(r.res)
                 ELSE cpc' = "ran" /\ UNCHANGED result
  /\ UNCHANGED <<fnVars, argVars, rawArgs, logoutErr>>
  /\ UNCHANGED <<ioVars, engVars, obsVars, harnessVars>>

\* ------------------------------------------------------------------------
\* fetch_messages (standard layer) and imap_fetch_messages
\* ------------------------------------------------------------------------

kASYNC == <<"A", "S", "Y", "N", "C", "_", "I", "M", "A", "P", "_", "E", "M", "P", "T",
            "Y", ":">>

kSELECT == <<"S", "E", "L", "E", "C", "T", SP>>

kUIDFETCH == <<"U", "I", "D", SP, "F", "E", "T", "C", "H", SP>>

\* An error given by the head of its text, up to the first value formatted
\* into it that the model leaves open.
ErrText(t) == [kind |-> "err", pre |-> "", arg |-> t, val |-> <<>>]

\* What uid_fetch can yield for one item of the stream: a stream error, or a
\* decoded Fetch without UID, without body, with a body mail-parser rejects,
\* or one that is well formed.
ItemKinds == {"error", "nouid", "nobody", "badmime", "good"}

ItemLists == UNION {[1..n -> ItemKinds] : n \in 0..MaxFetch}

Keep(items, kinds) == SelectSeq(items, LAMBDA k : k \in kinds)

\* A fetch_messages that never raises the signal.
EmptySignalNever(fetches, exists) == FALSE

\* fetches.is_empty() && mailbox.exists > 0
EmptySignal(fetches, exists) == fetches = <<>> /\ exists > 0

\* The loop over the decoded items: an item without UID, without body or with
\* a body mail-parser rejects is skipped, the others are pushed in the order
\* of the stream.  A message is named by the place of its item in the stream.
Messages(items) ==
  SelectSeq([i \in 1..Len(items) |-> i], LAMBDA i : items[i] = "good")

\* A fetch_messages that gives up at the first item it cannot use.
FetchMessagesFailFast(folder, items, exists) ==
  IF \E i \in 1..Len(items) : items[i] # "good"
    THEN Err("Failed to parse MIME message", <<>>)
    ELSE Ok(Messages(items))

\* fetch_messages after SELECT reported `exists` and uid_fetch yielded `items`.
FetchMessages(folder, items, exists) ==
  LET fetches == Keep(items, ItemKinds \ {"error"})
  IN  IF EmptySignal(fetches, exists) THEN ErrText(kASYNC \o folder)
      ELSE Ok(Messages(items))

\* imap_fetch_messages on its session: fetch_messages runs, its result is
\* kept (no `?`).
RunFetch ==
  /\ cpc = "session"
  /\ op = "imap_fetch_messages"
  /\ LET args == [cfg |-> cfg, folder |-> Folder, uid_range |-> UidSet(uids)]
     IN  \/ /\ net' = Append(net, Ev("send", "std", "SELECT"))
            /\ stdResult' = ErrText(kSELECT \o args.folder)
            /\ served' = [exists |-> 0, items |-> <<>>, args |-> args]
         \/ \E n \in 0..MaxExists :
              /\ net' = net \o <<Ev("send", "std", "SELECT"), Ev("send", "std", "UID FETCH")>>
              /\ stdResult' = ErrText(kUIDFETCH \o args.folder)
              /\ served' = [exists |-> n, items |-> <<>>, args |-> args]
         \/ \E n \in 0..MaxExists, items \in ItemLists :
              /\ net' = net \o <<Ev("send", "std", "SELECT"), Ev("send", "std", "UID FETCH")>>
              /\ stdResult' = FetchMessages(args.folder, items, n)
              /\ served' = [exists |-> n, items |-> items, args |-> args]
  /\ cpc' = "ran"
  /\ UNCHANGED <<fnVars, argVars, result, rawArgs, logoutErr>>
  /\ UNCHANGED <<ioVars, engVars, obsVars, harnessVars>>

\* The logout of a chain command that succeeded.  test_connection passes a
\* failure of LOGOUT on; the commands discard it.
Logout ==
  /\ cpc = "ran"
  /\ op \in ChainOps
  /\ net' = Append(net, Ev("send", "std", "LOGOUT"))
  /\ \E failed \in BOOLEAN :
       /\ logoutErr' = failed
       /\ IF op = "imap_test_connection" /\ failed
            THEN Return(Err("LOGOUT failed: ", <<>>))
            ELSE Return(stdResult)
  /\ UNCHANGED <<fnVars, argVars, stdResult, served, rawArgs>>
  /\ UNCHANGED <<ioVars, engVars, obsVars, harnessVars>>

\* A command that falls back on every error.
IsAnyError(r) == r.kind = "err"

\* e.starts_with("ASYNC_IMAP_EMPTY:")
IsEmptySignal(r) == r.kind = "err" /\ r.pre = "" /\ StartsWith(r.arg, kASYNC)

\* imap_fetch_messages after fetch_messages: logout, result discarded, then
\* the match on the result; on the signal raw_fetch_messages is called.
FetchLogout ==
  /\ cpc = "ran"
  /\ op = "imap_fetch_messages"
  /\ net' = Append(net, Ev("send", "std", "LOGOUT"))
  /\ logoutErr' \in BOOLEAN
  /\ IF IsEmptySignal(stdResult)
       THEN /\ cpc' = "raw"
            /\ rawArgs' = [cfg |-> cfg, folder |-> Folder, uid_range |-> UidSet(uids)]
            /\ pc' = "connect"
            /\ UNCHANGED result
       ELSE /\ Return(stdResult)
            /\ UNCHANGED <<rawArgs, pc>>
  /\ UNCHANGED <<fnVars, argVars, stdResult, served>>
  /\ UNCHANGED <<ioVars, tag, line, response, need, body, cur, raws, parseRes>>
  /\ UNCHANGED <<obsVars, harnessVars>>

\* ------------------------------------------------------------------------
\* raw_fetch_messages: the session of the raw engine
\* ------------------------------------------------------------------------

TagA4 == <<"a", "4">>

\* The server owes the greeting.
TagGreeting == <<"*">>

\* The steps of connect_stream / raw_connect_starttls, in order.
RawPhases(c) ==
  CASE c.security = "starttls" ->
         <<"TCP", "greeting", "STARTTLS", "STARTTLS response", "TLS">>
    [] c.security = "tls" -> <<"TCP", "TLS">>
    [] c.security = "none" -> <<"TCP">>
    [] OTHER -> <<>>

\* The literal head of the error of each step.
RawConnErr(c, phase) ==
  IF c.security = "starttls"
    THEN CASE phase = "TCP" -> "TCP: "
           [] phase = "STARTTLS" -> "STARTTLS: "
           [] phase = "STARTTLS response" -> "STARTTLS rejected: "
           [] phase = "TLS" -> "TLS: "
    ELSE CASE phase = "TCP" -> "TCP connect to "
           [] phase = "TLS" -> "TLS handshake with "

\* The host as the error text of a step shows it: raw_connect_starttls
\* formats no host into its errors.
RawErrHost(c, phase) == IF c.security = "starttls" THEN <<>> ELSE ErrHost(c, phase)

\* The function returns r to the command, which returns it to its caller.
RawReturn(r) ==
  /\ Return(r)
  /\ pc' = "done"

\* write_all can fail only on a connection the server has closed.
WriteFails == IF srv = "closed" THEN BOOLEAN ELSE {FALSE}

\* The LOGIN command of the configured auth method.
LoginCmd(c) == IF c.auth_method = "oauth2" THEN "AUTHENTICATE" ELSE "LOGIN"

\* raw_send_and_wait(reader, cmd, t) has written its command and starts to
\* read.
StartWait(t) ==
  /\ pc' = "wait"
  /\ tag' = t
  /\ response' = <<>>
  /\ pending' = [tag |-> t, n |-> 0, data |-> <<>>]
  /\ seen' = [tag |-> t, lines |-> <<>>, res |-> NoResult]

\* Connecting.  In starttls mode the greeting and the answer to STARTTLS are
\* read with no deadline (a server that sends neither leaves the call there),
\* the result of the greeting read is ignored, the answer passes when it
\* holds "OK", and LOGIN follows at once.
RawConnect ==
  /\ cpc = "raw" /\ pc = "connect"
  /\ LET c == rawArgs.cfg
         phases == RawPhases(c)
         log(k, r, io) ==
           net \o Concat([i \in 1..k |->
                    IF phases[i] = "STARTTLS response"
                      THEN PhaseEvents("raw", phases[i], "", r, io /\ i = k)
                      ELSE <<Ev("conn", "raw", phases[i])>>])
         passes(k, r) ==
           \A i \in 1..k : phases[i] = "STARTTLS response" =>
                              Affirmative(ReplyText(TagA0, r))
     IN  \/ /\ phases = <<>>
            /\ RawReturn(Err("Unknown security mode: ", <<c.security>>))
            /\ UNCHANGED <<net, ioVars, tag, response, seen>>
         \/ \E k \in 1..Len(phases), r \in Replies, io \in BOOLEAN :
              /\ phases[k] # "greeting"
              /\ passes(k - 1, r)
              /\ io \/ phases[k] # "STARTTLS response" \/ ~passes(k, r)
              /\ net' = log(k, r, io)
              /\ RawReturn(Err(IF io /\ phases[k] = "STARTTLS response"
                                 THEN "STARTTLS resp: " ELSE RawConnErr(c, phases[k]),
                               RawErrHost(c, phases[k])))
              /\ UNCHANGED <<ioVars, tag, response, seen>>
         \/ \E k \in 1..Len(phases) :
              /\ phases[k] \in ReadPhases
              /\ net' = log(k, "tagged OK", TRUE)
              /\ pc' = "connecting"
              /\ srv' = "silent"
              /\ UNCHANGED <<wire, buf, mss, pending, tag, response, seen, result, cpc>>
         \/ \E r \in Replies :
              /\ phases # <<>>
              /\ passes(Len(phases), r)
              /\ srv' = "live"
              /\ wire' = <<>> /\ buf' = <<>>
              /\ UNCHANGED <<mss, result, cpc>>
              /\ IF c.security = "starttls"
                   THEN /\ net' = Append(log(Len(phases), r, FALSE),
                                         EvT("send", TagA1, LoginCmd(c)))
                        /\ StartWait(TagA1)
                   ELSE /\ net' = log(Len(phases), r, FALSE)
                        /\ pc' = "greeting"
                        /\ pending' = [tag |-> TagGreeting, n |-> 0, data |-> <<>>]
                        /\ UNCHANGED <<tag, response, seen>>
  /\ UNCHANGED <<fnVars, argVars, stdResult, served, rawArgs, logoutErr>>
  /\ UNCHANGED <<line, need, body, cur, raws, parseRes, ann, afterLit, harnessVars>>

\* The greeting: one read_line with no deadline, the line itself is not
\* looked at; then LOGIN is written.
LineGreeting ==
  /\ cpc = "raw" /\ pc = "greeting" /\ LineReady
  /\ buf' = RestBuf
  /\ line' = <<>>
  /\ IF ~Utf8Ok(GotLine)
       THEN /\ RawReturn(Err("greeting: ", <<>>))
            /\ UNCHANGED <<net, pending, tag, response, seen>>
       ELSE \E failed \in WriteFails :
              IF failed
                THEN /\ net' = Append(net, Ev("conn", "raw", "greeting"))
                     /\ RawReturn(Err("{tag} write: ", <<TagA1>>))
                     /\ UNCHANGED <<pending, tag, response, seen>>
                ELSE /\ net' = net \o <<Ev("conn", "raw", "greeting"),
                                        EvT("send", TagA1, LoginCmd(rawArgs.cfg))>>
                     /\ StartWait(TagA1)
                     /\ UNCHANGED <<result, cpc>>
  /\ UNCHANGED <<fnVars, argVars, stdResult, served, rawArgs, logoutErr>>
  /\ UNCHANGED <<wire, srv, mss, need, body, cur, raws, parseRes, ann, afterLit,
                 harnessVars>>

\* A variant that looks for the tagged status anywhere in the line.
IsTaggedAnywhere(ln, t, status) == Contains(ln, t \o status)

\* line.starts_with("<tag> OK") and its like.
IsTagged(ln, t, status) == StartsWith(ln, t \o status)

\* raw_send_and_wait returns r; `lines` are the lines it has read.
WaitReturn(r, lines) ==
  /\ seen' = [tag |-> tag, lines |-> lines, res |-> r]
  /\ pc' = "waited"

\* One turn of the loop of raw_send_and_wait: read_line under the 30 s
\* deadline returned.
LineWait ==
  /\ cpc = "raw" /\ pc = "wait" /\ LineReady
  /\ buf' = RestBuf
  /\ line' = <<>>
  /\ LET ln == GotLine
         lines == Append(seen.lines, ln)
     IN  IF ~Utf8Ok(ln)
           THEN /\ WaitReturn(Err("{tag} read: ", <<tag>>), seen.lines)
                /\ UNCHANGED <<net, response>>
         ELSE IF ln = <<>>
           THEN /\ WaitReturn(Err("{tag}: connection closed", <<tag>>), seen.lines)
                /\ UNCHANGED <<net, response>>
         ELSE IF IsTagged(ln, tag, kOK)
           THEN /\ WaitReturn(Ok(response \o ln), lines)
                /\ response' = response \o ln
                /\ net' = Append(net, EvT("ok", tag, ""))
         ELSE IF IsTagged(ln, tag, kNO) \/ IsTagged(ln, tag, kBAD)
           THEN /\ WaitReturn(Err("{tag} failed: {line}", <<tag, ln>>), lines)
                /\ response' = response \o ln
                /\ net' = Append(net, EvT("no", tag, ""))
         ELSE /\ response' = response \o ln
              /\ seen' = [seen EXCEPT !.lines = lines]
              /\ UNCHANGED <<net, pc>>
  /\ UNCHANGED <<fnVars, argVars, result, cpc, stdResult, served, rawArgs,
                 logoutErr>>
  /\ UNCHANGED <<wire, srv, mss, pending, tag, need, body, cur, raws, parseRes, ann,
                 afterLit, harnessVars>>

\* tokio::time::timeout(30 s, read_line) in raw_send_and_wait: no byte
\* arrives in time.
TimeoutWait ==
  /\ cpc = "raw" /\ pc = "wait"
  /\ buf = <<>> /\ wire = <<>> /\ srv # "closed"
  /\ line' = <<>>
  /\ WaitReturn(Err("{tag}: timeout", <<tag>>), seen.lines)
  /\ UNCHANGED cmdVars
  /\ UNCHANGED <<ioVars, tag, response, need, body, cur, raws, parseRes, ann, afterLit,
                 harnessVars>>

\* A caller that goes on whatever raw_send_and_wait returned.
WaitFailedIgnored(r) == FALSE

\* The `?` after raw_send_and_wait(...).await.
WaitFailed(r) == r.kind = "err"

\* raw_fetch_messages after raw_send_and_wait returned: an error is passed on
\* with `?`; after a1 SELECT is sent with raw_send_and_wait, after a2 UID
\* FETCH is written and raw_parse_fetch_responses entered.
AfterWait ==
  /\ cpc = "raw" /\ pc = "waited"
  /\ IF WaitFailed(seen.res)
       THEN /\ RawReturn(seen.res)
            /\ UNCHANGED <<net, pending, tag, response, seen>>
       ELSE \E failed \in WriteFails :
              IF failed
                THEN /\ RawReturn(IF tag = TagA1 THEN Err("{tag} write: ", <<TagA2>>)
                                  ELSE Err("FETCH write: ", <<>>))
                     /\ UNCHANGED <<net, pending, tag, response, seen>>
              ELSE IF tag = TagA1
                THEN /\ net' = Append(net, EvT("send", TagA2, "SELECT"))
                     /\ StartWait(TagA2)
                     /\ UNCHANGED <<result, cpc>>
                ELSE /\ net' = Append(net, EvT("send", TagA3, "UID FETCH"))
                     /\ pc' = "fetch"
                     /\ tag' = TagA3
                     /\ pending' = [tag |-> TagA3, n |-> 0, data |-> <<>>]
                     /\ UNCHANGED <<response, seen, result, cpc>>
  /\ UNCHANGED <<fnVars, argVars, stdResult, served, rawArgs, logoutErr>>
  /\ UNCHANGED <<wire, buf, srv, mss, line, need, body, cur, raws, parseRes, ann,
                 afterLit, harnessVars>>

\* MessageParser::parse(raw) gives a message: mail-parser takes any input
\* that is not empty.
MimeParses(b) == b # <<>>

\* The messages made of the raw messages mail-parser takes.
RECURSIVE Normalize(_)
Normalize(rs) ==
  IF rs = <<>> THEN <<>>
  ELSE (IF MimeParses(Head(rs).body)
          THEN <<[uid |-> Head(rs).uid, is_read |-> Head(rs).is_read,
                  is_starred |-> Head(rs).is_starred, is_draft |-> Head(rs).is_draft,
                  internal_date |-> Head(rs).internal_date,
                  raw_size |-> Len(Head(rs).body), raw |-> Head(rs).body]>>
          ELSE <<>>)
       \o Normalize(Tail(rs))

\* raw_fetch_messages after raw_parse_fetch_responses returned: an error is
\* passed on with `?`; else the messages are normalized, LOGOUT is written
\* (result ignored) and the result returned.
RawAfterParse ==
  /\ cpc = "raw" /\ pc = "parsed"
  /\ IF parseRes.kind = "err"
       THEN /\ net' = IF parseRes.pre = "FETCH failed: "
                        THEN Append(net, EvT("no", TagA3, "")) ELSE net
            /\ RawReturn(parseRes)
       ELSE /\ net' = net \o <<EvT("ok", TagA3, ""), EvT("send", TagA4, "LOGOUT")>>
            /\ RawReturn(Ok(Normalize(parseRes.val)))
  /\ UNCHANGED <<fnVars, argVars, stdResult, served, rawArgs, logoutErr>>
  /\ UNCHANGED <<ioVars, tag, line, response, need, body, cur, raws, parseRes>>
  /\ UNCHANGED <<obsVars, harnessVars>>

\* ------------------------------------------------------------------------
\* The server of the raw session
\* ------------------------------------------------------------------------

\* "* OK\r\n"
GreetingLine == kStar \o <<"O", "K">> \o CRLF

\* A line that is not UTF-8.
BinLine == <<BinByte, LF>>

\* "a9 OK\r\n": the status of a command that was never sent.
OtherTagLine == <<"a", "9">> \o kOK \o CRLF

\* Data that does not complete command t: an untagged line that quotes the tag
\* and a status, a line with another tag, a line that is not text, and the
\* start of a line the rest of which is still to come.
UntaggedLines(t) == {kStar \o t \o kOK \o CRLF, OtherTagLine, BinLine, kStar}

\* The tagged status lines of command t.
TaggedLines(t) == {t \o kOK \o CRLF, t \o kNO \o CRLF, t \o kBAD \o CRLF}

\* "* 1 FETCH (UID 7 {2}\r\n" "x:": a response the closing line of which is
\* still to come.
SegOpen ==
  kStar \o <<"1", SP>> \o kFETCH \o <<SP, "(">> \o kUID \o <<"7", SP, "{", "2", "}">>
    \o CRLF \o <<"x", ":">>

\* "* 1 FETCH (BODY[] {2}\r\n" "x:" " UID 7 FLAGS (\Seen))\r\n": a whole
\* response with the literal before the other attributes.
SegLiteralFirst ==
  kStar \o <<"1", SP>> \o kFETCH \o <<SP, "(">> \o kBODY \o <<"{", "2", "}">> \o CRLF
    \o <<"x", ":", SP>> \o kUID \o <<"7", SP>> \o kFLAGS \o kSeen \o <<")", ")">> \o CRLF

\* What the server can send while UID FETCH is pending: whole responses, a
\* response cut inside its literal or before its closing line.  The order of
\* the attributes of a response is the server's choice.
FetchData ==
  {SegMsg(7, <<"x", ":">>), SegMsg(7, <<>>), SegNoUid(<<"x">>), SegCut, SegOpen,
   SegLiteralFirst}

\* The server sends data that does not complete the pending command.
ServerSend ==
  /\ cpc = "raw" /\ srv = "live"
  /\ pending.tag \in {TagA1, TagA2, TagA3}
  /\ pending.n < MaxUntagged
  /\ \E d \in (IF pending.tag = TagA3 THEN FetchData ELSE UntaggedLines(pending.tag)) :
       /\ wire' = wire \o d
       /\ pending' = [pending EXCEPT !.n = @ + 1, !.data = @ \o d]
  /\ UNCHANGED <<buf, srv, mss, engVars, obsVars, harnessVars, cmdVars>>

\* The server sends the greeting, or the tagged status of the pending command.
ServerAnswer ==
  /\ cpc = "raw" /\ srv = "live"
  /\ pending.tag # <<>>
  /\ \E d \in (IF pending.tag = TagGreeting THEN {GreetingLine, BinLine}
               ELSE TaggedLines(pending.tag)) :
       /\ wire' = wire \o d
       /\ pending' = [NoPending EXCEPT !.data = pending.data \o d]
  /\ UNCHANGED <<buf, srv, mss, engVars, obsVars, harnessVars, cmdVars>>

\* The server stops sending, for good, and leaves the connection open.
ServerStall ==
  /\ cpc = "raw" /\ srv = "live"
  /\ srv' = "silent"
  /\ UNCHANGED <<wire, buf, mss, pending, engVars, obsVars, harnessVars, cmdVars>>

\* The server closes the connection.
ServerClose ==
  /\ cpc = "raw" /\ srv = "live"
  /\ srv' = "closed"
  /\ UNCHANGED <<wire, buf, mss, pending, engVars, obsVars, harnessVars, cmdVars>>

\* ------------------------------------------------------------------------
\* One invocation of a public command
\* ------------------------------------------------------------------------

Securities == {"tls", "starttls", "none", "ssl"}

AuthMethods == {"password", "oauth2"}

\* base64url payloads of imap_append_message: "YQ", "YQ==" (padded), "Y"
\* (no whole byte).
Payloads == {<<"Y", "Q">>, <<"Y", "Q", "=", "=">>, <<"Y">>}

UidLists == {<<>>, <<7, 12>>}

Init ==
  /\ op \in Ops
  /\ uids \in (IF op \in UidOps THEN UidLists ELSE {<<7>>})
  /\ cfg \in [security : Securities, auth_method : AuthMethods]
  /\ payload \in (IF op = "imap_append_message" THEN Payloads ELSE {<<>>})
  /\ since_uid \in (IF op = "imap_fetch_new_uids" THEN SinceUids ELSE {0})
  /\ flags \in (IF op = "imap_set_flags" THEN FlagLists ELSE {<<>>})
  /\ add \in (IF op = "imap_set_flags" THEN BOOLEAN ELSE {FALSE})
  /\ cpc = "start"
  /\ net = <<>>
  /\ result = NoResult /\ stdResult = NoResult
  /\ served = NoServed /\ rawArgs = NoArgs /\ logoutErr = FALSE
  /\ wire = <<>> /\ buf = <<>> /\ srv = "closed" /\ mss = BufCap /\ pending = NoPending
  /\ pc = "idle" /\ tag = <<>> /\ line = <<>> /\ response = <<>>
  /\ need = 0 /\ body = <<>> /\ cur = NoCur /\ raws = <<>> /\ parseRes = NoResult
  /\ ann = NoAnn /\ afterLit = FALSE /\ seen = NoSeen
  /\ run = 0 /\ twin = <<>> /\ first = NoResult
  /\ call = NoCall /\ ret = NoResult

Next ==
  \/ EmptyUidReturn
  \/ Connect
  \/ RunOp
  \/ RunFetch
  \/ Logout
  \/ FetchLogout
  \/ RawConnect
  \/ LineGreeting
  \/ LineWait
  \/ TimeoutWait
  \/ AfterWait
  \/ SocketRead
  \/ LinePartial
  \/ LineFetch
  \/ ExactStep
  \/ ExactEof
  \/ LineClosing
  \/ TimeoutFetch
  \/ RawAfterParse
  \/ ServerSend
  \/ ServerAnswer
  \/ ServerStall
  \/ ServerClose

Spec == Init /\ [][Next]_vars

\* ------------------------------------------------------------------------
\* Calls of parse_imap_date
\* ------------------------------------------------------------------------

\* The dates the function is called with: every combination of the fields
\* below in the form DD-Mon-YYYY HH:MM:SS, with or without a zone, and a few
\* texts that are no date.
DayNumbers == {0, 1, 28, 29, 30, 31, 32}

MonthTexts == {<<"J", "a", "n">>, <<"F", "e", "b">>, <<"M", "a", "r">>,
               <<"A", "p", "r">>, <<"J", "U", "N">>, <<"d", "e", "c">>,
               <<"F", "o", "o">>}

YearNumbers == {1970, 2000, 2023, 2024, 2100}

TimesOfDay == {<<0, 0, 0>>, <<12, 0, 0>>, <<23, 59, 59>>}

ZoneTexts == {<<"+", "0", "0", "0", "0">>, <<"-", "0", "0", "0", "0">>,
              <<"+", "0", "5", "3", "0">>, <<"-", "0", "8", "0", "0">>, <<>>}

\* Two decimal digits.
Dec2(n) == IF n < 10 THEN <<"0">> \o Dec(n) ELSE Dec(n)

DateText(d, mon, y, t, z) ==
  Dec2(d) \o <<"-">> \o mon \o <<"-">> \o Dec(y) \o <<SP>>
  \o Dec2(t[1]) \o <<":">> \o Dec2(t[2]) \o <<":">> \o Dec2(t[3])
  \o (IF z = <<>> THEN <<>> ELSE <<SP>> \o z)

NoDates == {<<>>, <<"1", "6", "-", "F", "e", "b">>,
            <<"1", "6", "-", "F", "e", "b", SP, "1", "2", ":", "0", "0", ":", "0", "0">>,
            <<"x", "-", "F", "e", "b", "-", "2", "0", "2", "6", SP, "1", "2", ":", "0", "0", ":", "0", "0">>,
            <<"1", "6", "-", "F", "e", "b", "-", "2", "0", "2", "6", SP, "1", "2", ":", "0", "0">>,
            <<"1", "6", "-", "F", "e", "b", "-", "2", "0", "2", "6", SP, "1", "2", ":", "0", "0", ":", "x">>}

DateTexts ==
  {DateText(d, mon, y, t, z) : d \in DayNumbers, mon \in MonthTexts,
                               y \in YearNumbers, t \in TimesOfDay, z \in ZoneTexts}
  \cup NoDates

\* Nothing of the single-command model, of the raw engine or of the parser
\* harness is running.
NoCommand ==
  /\ op = "none" /\ uids = <<>> /\ cfg = NoCfg /\ payload = <<>>
  /\ since_uid = 0 /\ flags = <<>> /\ add = FALSE
  /\ cpc = "idle" /\ result = NoResult /\ stdResult = NoResult
  /\ served = NoServed /\ rawArgs = NoArgs /\ logoutErr = FALSE
  /\ wire = <<>> /\ buf = <<>> /\ srv = "closed" /\ mss = BufCap /\ pending = NoPending
  /\ pc = "idle" /\ tag = <<>> /\ line = <<>> /\ response = <<>>
  /\ need = 0 /\ body = <<>> /\ cur = NoCur /\ raws = <<>> /\ parseRes = NoResult
  /\ ann = NoAnn /\ afterLit = FALSE /\ seen = NoSeen
  /\ run = 0 /\ twin = <<>> /\ first = NoResult

\* Nothing of a command, of the raw engine or of the parser harness is
\* running: the state around a call of a function that needs no session.
NoSession ==
  /\ net = <<>>
  /\ NoCommand

idleVars == <<argVars, cpc, result, stdResult, served, rawArgs, logoutErr,
              ioVars, engVars, obsVars, harnessVars>>

NoSessionVars == <<net, idleVars>>

InitDate ==
  /\ NoSession
  /\ call \in [fn : {"parse_imap_date"}, arg : DateTexts, cfg : {NoCfg}]
  /\ ret = NoResult

\* extract_internal_date calls parse_imap_date(date_str) and returns its value.
CallParseImapDate ==
  /\ call.fn = "parse_imap_date" /\ ret = NoResult
  /\ ret' = Ok(parse_imap_date(call.arg))
  /\ UNCHANGED <<call, NoSessionVars>>

NextDate == CallParseImapDate

SpecDate == InitDate /\ [][NextDate]_vars

\* ------------------------------------------------------------------------
\* The SMTP sender (smtp/client.rs)
\* ------------------------------------------------------------------------

\* The alphabet of base64url; the value of a symbol is its place, from 0.
\* In this section a byte is its value, 0..255.
B64Url == UpperCase \o LowerCase \o Digits \o <<"-", "_">>

IsB64Url(c) == \E k \in 1..64 : B64Url[k] = c

B64Val(c) == (CHOOSE k \in 1..64 : B64Url[k] = c) - 1

\* The bits of the last symbol that belong to no byte are zero.
B64Canonical(v) ==
  /\ Len(v) % 4 = 2 => v[Len(v)] % 16 = 0
  /\ Len(v) % 4 = 3 => v[Len(v)] % 4 = 0

\* URL_SAFE_NO_PAD.decode(input).map_err(...): a symbol outside the alphabet
\* ('=' included), a length of 1 modulo 4 and a last symbol with stray bits
\* are errors.
decode_base64url(input) ==
  IF \E i \in 1..Len(input) : ~IsB64Url(input[i])
    THEN Err("Base64 decode error: ", <<>>)
    ELSE LET v == [i \in 1..Len(input) |-> B64Val(input[i])]
         IN  IF Len(v) % 4 = 1 \/ ~B64Canonical(v)
               THEN Err("Base64 decode error: ", <<>>)
               ELSE Ok(B64Bytes(v))

\* Addresses as mail-parser reports them: the text of an address, or NoAddr
\* for an entry without one (a display name alone, an empty group).
NoAddr == <<>>

AddrA == <<"a", "@", "x">>
AddrB == <<"b", "@", "x">>
AddrC == <<"c", "@", "x">>
AddrD == <<"d", "@", "x">>
AddrBad == <<"b", "o", "b">>

\* str::parse::<lettre::Address>: user@domain with neither part empty.
LettreOk(a) ==
  LET at == Find(a, <<"@">>)
  IN  at > 1 /\ at < Len(a) /\ Find(Drop(a, at), <<"@">>) = 0

\* The header fields of the raw messages of the model, each header by the
\* entries of its address list (<<>>: the header is absent).
FromLists == <<<<>>, <<NoAddr>>, <<AddrBad>>, <<AddrA>>, <<NoAddr, AddrA>>>>
ToLists == <<<<>>, <<AddrB>>, <<AddrBad, AddrB>>, <<NoAddr>>>>
CcLists == <<<<>>, <<AddrC>>>>
BccLists == <<<<>>, <<AddrD>>>>

\* The raw bytes of a message: one byte for each of its four headers, in
\* place of the RFC 2822 text.
RawMail(f, t, c, b) == <<f * 40 + 3, t * 50 + 5, c * 90 + 7, b * 110 + 9>>

RawMails ==
  {RawMail(f, t, c, b) : f \in 1..Len(FromLists), t \in 1..Len(ToLists),
                         c \in 1..Len(CcLists), b \in 1..Len(BccLists)}
  \cup {<<>>, <<1, 2>>}

\* MessageParser::default().parse(raw) and the accessors from(), to(), cc(),
\* bcc(): the headers of a raw message of the model, nothing for other bytes.
MailParse(raw) ==
  IF raw \in RawMails /\ Len(raw) = 4
    THEN [some |-> TRUE,
          from |-> FromLists[(raw[1] - 3) \div 40], to |-> ToLists[(raw[2] - 5) \div 50],
          cc |-> CcLists[(raw[3] - 7) \div 90], bcc |-> BccLists[(raw[4] - 9) \div 110]]
    ELSE [some |-> FALSE, from |-> <<>>, to |-> <<>>, cc |-> <<>>, bcc |-> <<>>]

\* The loop over one header: the entries that have an address lettre takes.
Pushed(list) == SelectSeq(list, LAMBDA e : e # NoAddr /\ LettreOk(e))

\* An extract_envelope that leaves the Bcc header out.
ExtractEnvelopeNoBcc(raw) ==
  LET message == MailParse(raw)
      from == IF message.from = <<>> THEN NoAddr ELSE message.from[1]
      recipients == Pushed(message.to) \o Pushed(message.cc)
  IN  IF ~message.some THEN Err("Failed to parse email for envelope extraction", <<>>)
      ELSE IF from = NoAddr THEN Err("No From address found in email", <<>>)
      ELSE IF ~LettreOk(from) THEN Err("Invalid From address '", from)
      ELSE IF recipients = <<>> THEN Err("No recipients found in email", <<>>)
      ELSE Ok([from |-> from, to |-> recipients])

extract_envelope(raw) ==
  LET message == MailParse(raw)
      from == IF message.from = <<>> THEN NoAddr ELSE message.from[1]
      recipients == Pushed(message.to) \o Pushed(message.cc) \o Pushed(message.bcc)
  IN  IF ~message.some THEN Err("Failed to parse email for envelope extraction", <<>>)
      ELSE IF from = NoAddr THEN Err("No From address found in email", <<>>)
      ELSE IF ~LettreOk(from) THEN Err("Invalid From address '", from)
      ELSE IF recipients = <<>> THEN Err("No recipients found in email", <<>>)
      ELSE Ok([from |-> from, to |-> recipients])

\* build_transport: relay() and starttls_relay() can refuse the host, and the
\* TLS parameters can fail to build when invalid certificates are accepted;
\* the plain builder cannot fail.
BuildErrors(config) ==
  CASE config.security = "tls" ->
         {"SMTP relay error: "}
           \cup (IF config.accept_invalid_certs THEN {"SMTP TLS params error: "} ELSE {})
    [] config.security = "starttls" ->
         {"SMTP STARTTLS error: "}
           \cup (IF config.accept_invalid_certs THEN {"SMTP TLS params error: "} ELSE {})
    [] OTHER -> {}

BuildOutcomes(config) == {""} \cup BuildErrors(config)

\* transport.send_raw(&envelope, &raw_bytes)
EvSendRaw(bytes) == [kind |-> "send", conn |-> "smtp", tag |-> bytes, what |-> "send_raw"]

\* A send_raw_email that builds its transport before it reads the message.
SendRawEmailBuildsFirst(config, input, built, sent) ==
  LET raw_bytes == decode_base64url(input)
      envelope == extract_envelope(raw_bytes.val)
  IN  IF built # "" THEN [ret |-> Err(built, <<>>), net |-> <<>>]
      ELSE IF raw_bytes.kind = "err" THEN [ret |-> raw_bytes, net |-> <<>>]
      ELSE IF envelope.kind = "err" THEN [ret |-> envelope, net |-> <<>>]
      ELSE [ret |-> IF sent THEN Ok(<<>>) ELSE Err("SMTP send error: ", <<>>),
            net |-> <<EvSendRaw(raw_bytes.val)>>]

\* send_raw_email when build_transport ends as `built` ("" for Ok) and the
\* send succeeds or not: what it returns and what it hands to the network.
send_raw_email(config, input, built, sent) ==
  LET raw_bytes == decode_base64url(input)
      envelope == extract_envelope(raw_bytes.val)
  IN  IF raw_bytes.kind = "err" THEN [ret |-> raw_bytes, net |-> <<>>]
      ELSE IF envelope.kind = "err" THEN [ret |-> envelope, net |-> <<>>]
      ELSE IF built # "" THEN [ret |-> Err(built, <<>>), net |-> <<>>]
      ELSE [ret |-> IF sent THEN Ok(<<>>) ELSE Err("SMTP send error: ", <<>>),
            net |-> <<EvSendRaw(raw_bytes.val)>>]

\* The unpadded base64url text of a byte sequence.
RECURSIVE B64Encode(_)
B64Encode(b) ==
  IF b = <<>> THEN <<>>
  ELSE IF Len(b) = 1 THEN <<B64Url[b[1] \div 4 + 1], B64Url[(b[1] % 4) * 16 + 1]>>
  ELSE IF Len(b) = 2
    THEN <<B64Url[b[1] \div 4 + 1], B64Url[(b[1] % 4) * 16 + b[2] \div 16 + 1],
           B64Url[(b[2] % 16) * 4 + 1]>>
  ELSE <<B64Url[b[1] \div 4 + 1], B64Url[(b[1] % 4) * 16 + b[2] \div 16 + 1],
         B64Url[(b[2] % 16) * 4 + b[3] \div 64 + 1], B64Url[(b[3] % 64) + 1]>>
       \o B64Encode(Drop(b, 3))

\* Texts that are no unpadded base64url: a symbol outside the alphabet,
\* padding, a lone symbol, stray bits in the last symbol.
BadEmails == {<<"!", "!", "!">>, <<"Y", "Q", "=", "=">>, <<"Y">>, <<"Y", "R">>,
              <<"Y", "W", "J">>}

RawEmails == {B64Encode(raw) : raw \in RawMails} \cup BadEmails

SmtpConfigs ==
  [security : {"tls", "starttls", "none"}, auth_method : {"password"},
   accept_invalid_certs : BOOLEAN]

InitSmtp ==
  /\ NoSession
  /\ call \in [fn : {"send_raw_email"}, arg : RawEmails, cfg : SmtpConfigs]
              \cup [fn : {"extract_envelope"}, arg : RawMails,
                    cfg : {[security |-> "", auth_method |-> "", accept_invalid_certs |-> FALSE]}]
  /\ ret = NoResult

\* smtp_send_email: send_raw_email(&config, &raw_email).await
SendRawEmail ==
  /\ call.fn = "send_raw_email" /\ ret = NoResult
  /\ \E built \in BuildOutcomes(call.cfg), sent \in BOOLEAN :
       LET r == send_raw_email(call.cfg, call.arg, built, sent)
       IN  ret' = r.ret /\ net' = net \o r.net
  /\ UNCHANGED <<call, idleVars>>

\* extract_envelope(&raw_bytes) on its own.
CallExtractEnvelope ==
  /\ call.fn = "extract_envelope" /\ ret = NoResult
  /\ ret' = extract_envelope(call.arg)
  /\ UNCHANGED <<call, NoSessionVars>>

NextSmtp ==
  \/ SendRawEmail
  \/ CallExtractEnvelope

SpecSmtp == InitSmtp /\ [][NextSmtp]_vars

\* ------------------------------------------------------------------------
\* The snippet of a message (parse_message, imap/client.rs)
\* ------------------------------------------------------------------------

\* The most characters of the text body a snippet keeps.
SnippetMax == 200

\* The number of bytes of a text in UTF-8.
Utf8Len(s) == Len(s) + Cardinality({i \in 1..Len(s) : s[i] = EAcute})

\* Option<String>
NoText == [some |-> FALSE, text |-> <<>>]

SomeText(t) == [some |-> TRUE, text |-> t]

\* The longest prefix of s of at most n bytes.
TakeBytes(s, n) ==
  LET fits == {k \in 0..Len(s) : Utf8Len(SubSeq(s, 1, k)) <= n}
  IN  SubSeq(s, 1, CHOOSE k \in fits : \A j \in fits : j <= k)

\* A snippet cut by bytes.
SnippetByBytes(body_text) ==
  IF ~body_text.some THEN NoText
  ELSE LET cleaned == [i \in 1..Len(body_text.text) |->
                         IF IsWhitespace(body_text.text[i]) THEN SP ELSE body_text.text[i]]
           trimmed == Trim(cleaned)
       IN  IF Utf8Len(trimmed) > SnippetMax
             THEN SomeText(TakeBytes(trimmed, SnippetMax) \o <<".", ".", ".">>)
             ELSE SomeText(trimmed)

\* body_text.as_ref().map(|text| ...): every whitespace character becomes a
\* space, the ends are trimmed, and a text of more than 200 characters is cut
\* to its first 200 with "..." after them.
Snippet(body_text) ==
  IF ~body_text.some THEN NoText
  ELSE LET cleaned == [i \in 1..Len(body_text.text) |->
                         IF IsWhitespace(body_text.text[i]) THEN SP ELSE body_text.text[i]]
           trimmed == Trim(cleaned)
       IN  IF Len(trimmed) > SnippetMax
             THEN SomeText(Take(trimmed, SnippetMax) \o <<".", ".", ".">>)
             ELSE SomeText(trimmed)

\* The text bodies of the model: n characters, with whitespace before them,
\* after them and in their middle.
Fill(c, n) == [i \in 1..n |-> c]

BodyLengths == {0, 1, 2, 150, 199, 200, 201, 250}

BodyChars == {"x", EAcute}

Margins == {<<>>, <<SP>>, <<LF, "\t">>}

Gaps == {<<>>, <<SP>>, <<SP, SP>>, <<CR, LF>>, <<"\t", SP, LF>>}

BodyText(pre, c, n, gap, post) ==
  pre \o Fill(c, n \div 2) \o gap \o Fill(c, n - n \div 2) \o post

BodyTexts ==
  {SomeText(BodyText(pre, c, n, gap, post)) :
     pre \in Margins, c \in BodyChars, n \in BodyLengths, gap \in Gaps, post \in Margins}
  \cup {NoText}

InitSnippet ==
  /\ NoSession
  /\ call \in [fn : {"parse_message"}, arg : BodyTexts, cfg : {NoCfg}]
  /\ ret = NoResult

\* parse_message on a message whose message.body_text(0) is call.arg: the
\* snippet of the ImapMessage it returns.
ParseMessage ==
  /\ call.fn = "parse_message" /\ ret = NoResult
  /\ ret' = Ok(Snippet(call.arg))
  /\ UNCHANGED <<call, NoSessionVars>>

NextSnippet == ParseMessage

SpecSnippet == InitSnippet /\ [][NextSnippet]_vars

\* ------------------------------------------------------------------------
\* Several invocations at once
\* ------------------------------------------------------------------------
\* In this section `call` holds the state of each invocation, `ret` its
\* result and `net` the state of each connection of the server.

\* The most invocations running at once.
MaxInvocations == 2

Invocations == 1..MaxInvocations

ConcOps == {"imap_fetch_new_uids", "imap_search_all_uids"}

\* The UIDs a UID SEARCH answers with.
ConcHits == {<<3>>, <<7>>}

\* The commands of one invocation, in order: the LOGIN of connect, the
\* commands of its function, and the LOGOUT whose outcome is dropped.
Commands(o) ==
  <<Step("LOGIN", "Login failed: ", "must")>>
  \o SelectSeq(OpSteps(o), LAMBDA st : st.cmd # "")
  \o <<Step("LOGOUT", "", "ignore")>>

\* The invocation went through `?` on a failed command, or ran to its end.
Returned(o, answers) ==
  \/ Len(answers) = Len(Commands(o))
  \/ \E k \in 1..Len(answers) : ~answers[k].ok /\ Commands(o)[k].mode = "must"

\* The value an invocation of o returns, from the answers to its commands.
ResultFrom(o, answers) ==
  LET failed == {k \in 1..Len(answers) : ~answers[k].ok /\ Commands(o)[k].mode = "must"}
  IN  IF failed # {}
        THEN Err(Commands(o)[CHOOSE k \in failed : \A m \in failed : k <= m].pre, <<>>)
      ELSE Ok(answers[Len(Commands(o)) - 1].data)

NoInvocation(o) == [op |-> o, pc |-> "start", conn |-> 0, sent |-> 0, got |-> <<>>]

NoConnection == [asked |-> <<>>, answered |-> <<>>, taken |-> 0]

\* A connect that takes the connection of a session that is already open.
PooledConnection(i, invs) ==
  IF \E j \in Invocations : invs[j].conn # 0
    THEN invs[CHOOSE j \in Invocations : invs[j].conn # 0].conn
  ELSE i

\* imap_client::connect(&config) in the command: a new socket and a new
\* session, local to the invocation.
OwnConnection(i, invs) == i

InitConc ==
  /\ NoCommand
  /\ call \in [Invocations -> {NoInvocation(o) : o \in ConcOps}]
  /\ ret = [i \in Invocations |-> NoResult]
  /\ net = [c \in Invocations |-> NoConnection]

\* let mut session = imap_client::connect(&config).await?  up to the socket.
Invoke(i) ==
  /\ call[i].pc = "start"
  /\ \/ /\ call' = [call EXCEPT ![i].pc = "done"]
        /\ ret' = [ret EXCEPT ![i] = Err("TCP connect to ", <<>>)]
     \/ /\ call' = [call EXCEPT ![i].pc = "open",
                                ![i].conn = OwnConnection(i, call)]
        /\ ret' = ret
  /\ UNCHANGED <<net, idleVars>>

\* The session of invocation i sends its next command, with the next tag of
\* its own counter, on its connection.
InvSend(i) ==
  /\ call[i].pc = "open"
  /\ call[i].sent = Len(call[i].got)
  /\ call[i].sent < Len(Commands(call[i].op))
  /\ call' = [call EXCEPT ![i].sent = @ + 1]
  /\ net' = [net EXCEPT ![call[i].conn].asked =
               Append(@, [by |-> i, tag |-> call[i].sent + 1,
                          what |-> Commands(call[i].op)[call[i].sent + 1].cmd])]
  /\ UNCHANGED <<ret, idleVars>>

\* The server answers the oldest command of connection c that has no answer,
\* on connection c.
ServerAnswersConn(c) ==
  /\ Len(net[c].answered) < Len(net[c].asked)
  /\ LET cmd == net[c].asked[Len(net[c].answered) + 1]
     IN  \E ok \in BOOLEAN, hits \in ConcHits :
           net' = [net EXCEPT ![c].answered =
                     Append(@, [by |-> cmd.by, tag |-> cmd.tag, what |-> cmd.what,
                                ok |-> ok,
                                data |-> IF ok /\ cmd.what = "UID SEARCH" THEN hits
                                         ELSE <<>>])]
  /\ UNCHANGED <<call, ret, idleVars>>

\* The session of invocation i reads the next answer of its connection; the
\* command returns at `?` on a failure and after the LOGOUT otherwise.
InvRead(i) ==
  /\ call[i].pc = "open"
  /\ call[i].sent > Len(call[i].got)
  /\ net[call[i].conn].taken < Len(net[call[i].conn].answered)
  /\ LET answer == net[call[i].conn].answered[net[call[i].conn].taken + 1]
         got == Append(call[i].got, answer)
     IN  /\ net' = [net EXCEPT ![call[i].conn].taken = @ + 1]
         /\ IF Returned(call[i].op, got)
              THEN /\ call' = [call EXCEPT ![i].got = got, ![i].pc = "done"]
                   /\ ret' = [ret EXCEPT ![i] = ResultFrom(call[i].op, got)]
            ELSE /\ call' = [call EXCEPT ![i].got = got]
                 /\ ret' = ret
  /\ UNCHANGED idleVars

NextConc ==
  \E i \in Invocations :
    \/ Invoke(i)
    \/ InvSend(i)
    \/ ServerAnswersConn(i)
    \/ InvRead(i)

SpecConc == InitConc /\ [][NextConc]_vars

\* ------------------------------------------------------------------------
\* Literal framing
\* ------------------------------------------------------------------------

\* C1: when a FETCH line announces a literal {N}, the engine consumes exactly
\* the N bytes that follow the line, whatever they are: the body of the message
\* is those N bytes, and the next read_line starts at the byte N past the end
\* of the announcing line.
C1_LiteralReadExactly ==
  /\ afterLit =>
       /\ Len(ann.rest) >= ann.n
       /\ Remaining = Drop(ann.rest, ann.n)
       /\ line = <<>>
       /\ Len(body) = ann.n
       /\ body = Take(ann.rest, ann.n)
       /\ pc = IF ann.uid = 0 THEN "fetch" ELSE "closing"
  /\ pc = "closing" => body = Take(ann.rest, ann.n) /\ Len(body) = ann.n
  /\ ann.pushed =>
       /\ raws # <<>>
       /\ raws[Len(raws)].body = Take(ann.rest, ann.n)
       /\ Len(raws[Len(raws)].body) = ann.n

\* A body longer than one socket read and holding a line feed has just been
\* read in full.
C1_Witness ==
  /\ afterLit /\ ann.uid # 0 /\ pc = "closing"
  /\ ann.n > mss
  /\ HasLF(body)
  /\ Remaining # <<>>

\* C2: a FETCH line without UID that announces a literal {N} has its N bytes
\* read and discarded and adds no message, and the stream gives the same
\* result as the stream without that response.
C2_UidlessLiteralDiscarded ==
  /\ (afterLit /\ ann.uid = 0) =>
       /\ pc = "fetch"
       /\ raws = ann.raws
       /\ Len(body) = ann.n
       /\ Remaining = Drop(ann.rest, ann.n)
  /\ \A i \in 1..Len(raws) : raws[i].uid >= 1
  /\ (run = 2 /\ pc = "parsed") => parseRes = first

\* A literal without UID, longer than one socket read, has just been discarded
\* and a response with a UID follows it in the stream.
C2_Witness ==
  /\ run = 1 /\ afterLit /\ ann.uid = 0
  /\ ann.n > mss
  /\ Contains(Remaining, kUID)

\* ------------------------------------------------------------------------
\* The raw session: tagged waits, sequencing, deadlines
\* ------------------------------------------------------------------------

\* C3: raw_send_and_wait for tag T reads on until the first line that begins
\* with "T OK", "T NO" or "T BAD"; no line before the last one read begins so,
\* a line that does not begin so leaves the wait going with the line added to
\* the text, "T OK" returns Ok with the text of all lines read (that line
\* included), and "T NO" / "T BAD" return the error that carries the line.
C3_WaitEndsAtTaggedLine ==
  seen.tag # <<>> =>
    LET n == Len(seen.lines)
        t == seen.tag
        IsOk(ln) == StartsWith(ln, t \o kOK)
        IsNo(ln) == StartsWith(ln, t \o kNO) \/ StartsWith(ln, t \o kBAD)
    IN  /\ \A i \in 1..(n - 1) : ~IsOk(seen.lines[i]) /\ ~IsNo(seen.lines[i])
        /\ seen.res.kind = "none" =>
             /\ pc = "wait" /\ tag = t
             /\ response = Concat(seen.lines)
             /\ n > 0 => ~IsOk(seen.lines[n]) /\ ~IsNo(seen.lines[n])
        /\ seen.res.kind = "ok" =>
             /\ n > 0 /\ IsOk(seen.lines[n])
             /\ seen.res.val = Concat(seen.lines)
        /\ (n > 0 /\ IsOk(seen.lines[n])) => seen.res.kind = "ok"
        /\ (n > 0 /\ IsNo(seen.lines[n])) =>
             seen.res = Err("{tag} failed: {line}", <<t, seen.lines[n]>>)
        /\ (seen.res.kind = "err" /\ seen.res.pre = "{tag} failed: {line}") =>
             n > 0 /\ IsNo(seen.lines[n])

\* A wait returned Ok after it had read an untagged line quoting its own tag
\* and status.
C3_Witness ==
  /\ seen.res.kind = "ok"
  /\ Len(seen.lines) = 2
  /\ seen.lines[1] = kStar \o seen.tag \o kOK \o CRLF

\* C4: in a raw session commands and tagged answers alternate, a1 first: a2 is
\* written only after "a1 OK" was read, a3 only after "a2 OK", a4 only after
\* the tagged answer to a3, nothing is written after a NO/BAD to a1 or a2, and
\* outside starttls mode the greeting read precedes a1.
C4_OneCommandInFlight ==
  LET raw == SelectSeq(net, LAMBDA e : e.conn = "raw" /\ e.kind \in {"send", "ok", "no"})
      m == Len(raw)
      Order == <<TagA1, TagA2, TagA3, TagA4>>
  IN  /\ m <= 7
      /\ \A i \in 1..m :
           /\ (i % 2 = 1) <=> (raw[i].kind = "send")
           /\ raw[i].tag = Order[(i + 1) \div 2]
           /\ (raw[i].kind = "send" /\ i > 1) => raw[i - 1].kind = "ok"
           /\ (raw[i].kind = "no") => i = m
      /\ \A j \in 1..Len(net) :
           (net[j].conn = "raw" /\ net[j].kind = "send" /\ net[j].tag = TagA1) =>
             \E k \in 1..(j - 1) : net[k] = Ev("conn", "raw", "greeting")

\* A whole session, from the greeting to LOGOUT, outside starttls mode.
C4_Witness ==
  /\ cpc = "returned" /\ rawArgs.cfg.security = "none"
  /\ \E j \in 1..Len(net) : net[j] = EvT("send", TagA4, "LOGOUT")

\* A step of the raw engine (not of the server).
EngineStep ==
  \/ RawConnect \/ LineGreeting \/ LineWait \/ TimeoutWait \/ AfterWait
  \/ SocketRead \/ LinePartial \/ LineFetch \/ ExactStep \/ ExactEof
  \/ LineClosing \/ TimeoutFetch \/ RawAfterParse

\* C5: the raw engine never waits forever: once the server has stopped
\* sending, the engine can always take a step (in the end a deadline fires)
\* until it has returned.
C5_SilenceEndsInTimeout ==
  (cpc = "raw" /\ srv = "silent") => ENABLED EngineStep

\* ------------------------------------------------------------------------
\* The commands: fallback signal, empty UID lists, logout
\* ------------------------------------------------------------------------

\* C6 as stated: with a reported count above zero, fetch_messages signals
\* ASYNC_IMAP_EMPTY:<folder> whenever the fetch gave it no item, and never
\* returns Ok with an empty message list.
C6_NeverEmptyOkForNonEmptyMailbox ==
  (op = "imap_fetch_messages" /\ stdResult.kind # "none" /\ served.exists > 0
     /\ ~StartsWith(stdResult.arg, kSELECT) /\ ~StartsWith(stdResult.arg, kUIDFETCH)) =>
    /\ Keep(served.items, ItemKinds \ {"error"}) = <<>> =>
         stdResult = ErrText(kASYNC \o Folder)
    /\ ~(stdResult.kind = "ok" /\ stdResult.val = <<>>)

\* C6: fetch_messages signals ASYNC_IMAP_EMPTY:<folder> exactly when uid_fetch
\* yielded no decoded item (stream errors dropped) and the reported count is
\* above zero; else it returns the well-formed items, so that Ok with an
\* empty list for a mailbox that is not empty happens only when at least one
\* item was decoded and every decoded item was skipped.
C6_EmptySignalOnNoDecodedItem ==
  (op = "imap_fetch_messages" /\ stdResult.kind # "none"
     /\ ~StartsWith(stdResult.arg, kSELECT) /\ ~StartsWith(stdResult.arg, kUIDFETCH)) =>
    LET decoded == Keep(served.items, ItemKinds \ {"error"})
    IN  /\ (decoded = <<>> /\ served.exists > 0) <=> stdResult.kind = "err"
        /\ stdResult.kind = "err" => stdResult = ErrText(kASYNC \o Folder)
        /\ stdResult.kind = "ok" =>
             Len(stdResult.val) = Len(Keep(served.items, {"good"}))
        /\ (stdResult.kind = "ok" /\ stdResult.val = <<>> /\ served.exists > 0) =>
             /\ decoded # <<>>
             /\ \A i \in 1..Len(decoded) : decoded[i] # "good"

\* The signal was raised for a stream that held only stream errors.
C6_Witness ==
  /\ stdResult = ErrText(kASYNC \o Folder)
  /\ served.items = <<"error", "error">>
  /\ served.exists > 0

\* C7: imap_fetch_messages calls raw_fetch_messages exactly when
\* fetch_messages failed with the ASYNC_IMAP_EMPTY signal, with the config,
\* folder and UID set of the standard attempt; an Ok of fetch_messages and
\* every other error are returned as they are with no raw connection made.
C7_FallbackIffEmptySignal ==
  op = "imap_fetch_messages" =>
    LET signal == stdResult.kind = "err" /\ StartsWith(stdResult.arg, kASYNC)
        rawCalled == rawArgs # NoArgs
        rawNet == \E i \in 1..Len(net) : net[i].conn = "raw"
    IN  /\ (rawCalled \/ rawNet \/ cpc = "raw" \/ pc # "idle") => signal
        /\ (signal /\ cpc \in {"raw", "returned"}) => rawCalled
        /\ rawCalled =>
             /\ rawArgs = served.args
             /\ rawArgs = [cfg |-> cfg, folder |-> Folder, uid_range |-> UidSet(uids)]
        /\ (cpc = "returned" /\ stdResult.kind # "none" /\ ~signal) => result = stdResult

\* The fallback ran after the signal and its result was returned.
C7_Witness ==
  /\ op = "imap_fetch_messages" /\ cpc = "returned"
  /\ rawArgs # NoArgs
  /\ result.kind = "ok" /\ result.val # <<>>

\* C8: a UID command called with an empty UID list makes no network call: it
\* returns at once, Ok for set_flags, move and delete, the error "No UIDs
\* provided" for fetch.
C8_EmptyUidsNoNetwork ==
  (op \in UidOps /\ uids = <<>>) =>
    /\ net = <<>>
    /\ cpc \in {"start", "returned"}
    /\ pc = "idle"
    /\ cpc = "returned" =>
         result = IF op = "imap_fetch_messages" THEN Err("No UIDs provided", <<>>)
                  ELSE Ok(<<>>)

\* imap_fetch_messages has returned for an empty UID list.
C8_Witness ==
  /\ op = "imap_fetch_messages" /\ uids = <<>>
  /\ cpc = "returned" /\ result.kind = "err"

\* C9: a command that returns after it had a session (the standard session
\* of connect, or the raw engine's session after "a1 OK") has written LOGOUT
\* on that session.
C9_LogoutBeforeReturn ==
  cpc = "returned" =>
    /\ (\E i \in 1..Len(net) : net[i] = Ev("conn", "std", "session")) =>
         \E j \in 1..Len(net) : net[j] = Ev("send", "std", "LOGOUT")
    /\ (\E i \in 1..Len(net) : net[i] = EvT("ok", TagA1, "")) =>
         \E j \in 1..Len(net) : net[j] = EvT("send", TagA4, "LOGOUT")

\* C10: when the work of a command succeeded and its LOGOUT failed, the
\* command returns the result of the work.
C10_LogoutFailureHarmless ==
  (cpc = "returned" /\ logoutErr /\ stdResult.kind = "ok") => result = stdResult

\* ------------------------------------------------------------------------
\* Batches with malformed items
\* ------------------------------------------------------------------------

\* fetch_messages ran on the stream of uid_fetch (SELECT and UID FETCH were
\* accepted).
StreamFetched ==
  /\ op = "imap_fetch_messages" /\ stdResult.kind # "none"
  /\ ~StartsWith(stdResult.arg, kSELECT) /\ ~StartsWith(stdResult.arg, kUIDFETCH)

\* raw_fetch_messages returned the messages of a FETCH the server completed.
RawFetched ==
  /\ cpc = "returned" /\ rawArgs # NoArgs
  /\ parseRes.kind = "ok"

MoveLog ==
  SelectSeq(net, LAMBDA e : e.conn = "std" /\ e.kind \in {"send", "ok", "no"}
                            /\ e.what \in {"UID MOVE", "UID COPY", "UID STORE", "EXPUNGE"})

\* C12: move_messages issues UID MOVE first and returns Ok with no further
\* command when it is accepted; only after MOVE failed does it issue UID COPY,
\* then UID STORE, then EXPUNGE, in that order, each only if the one before
\* was accepted: the log of commands and answers is one of the six sequences
\* below, with the matching result.
C12_MoveThenFallbackInOrder ==
  (op = "imap_move_messages" /\ stdResult.kind # "none") =>
    LET s(c) == Ev("send", "std", c)
        ok(c) == Ev("ok", "std", c)
        no(c) == Ev("no", "std", c)
        toCopy == <<s("UID MOVE"), no("UID MOVE"), s("UID COPY")>>
        toStore == toCopy \o <<ok("UID COPY"), s("UID STORE")>>
        toExpunge == toStore \o <<ok("UID STORE"), s("EXPUNGE")>>
    IN  \/ MoveLog = <<>> /\ stdResult = Err("SELECT ", <<>>)
        \/ MoveLog = <<s("UID MOVE"), ok("UID MOVE")>> /\ stdResult = Ok(<<>>)
        \/ MoveLog = Append(toCopy, no("UID COPY"))
             /\ stdResult = Err("UID COPY failed: ", <<>>)
        \/ MoveLog = Append(toStore, no("UID STORE"))
             /\ stdResult = Err("UID STORE +Deleted failed: ", <<>>)
        \/ MoveLog = Append(toExpunge, no("EXPUNGE"))
             /\ stdResult = Err("EXPUNGE failed: ", <<>>)
        \/ MoveLog = Append(toExpunge, ok("EXPUNGE")) /\ stdResult = Ok(<<>>)

\* The server carried out command c of the standard session.
Accepted(c) == \E i \in 1..Len(net) : net[i] = Ev("ok", "std", c)

\* The moved messages are in the destination folder.
InDestination == Accepted("UID MOVE") \/ Accepted("UID COPY")

\* The moved messages are still in the source folder: they leave it by MOVE,
\* or by an EXPUNGE after they were flagged \Deleted.
InSource ==
  /\ ~Accepted("UID MOVE")
  /\ ~(Accepted("UID STORE") /\ Accepted("EXPUNGE"))

\* C13: when the fallback stops after COPY was accepted and before EXPUNGE
\* completed, move_messages returns an error, the messages are in both
\* folders, and no command follows the one that failed.
C13_StoppedFallbackIsReported ==
  (op = "imap_move_messages" /\ stdResult.kind # "none"
     /\ Accepted("UID COPY") /\ InSource) =>
    /\ InDestination
    /\ stdResult.kind = "err"
    /\ MoveLog[Len(MoveLog)].kind = "no"
    /\ \A i \in 1..Len(MoveLog) : MoveLog[i].kind = "no" /\ MoveLog[i].what # "UID MOVE" =>
         i = Len(MoveLog)

\* ------------------------------------------------------------------------
\* Connecting
\* ------------------------------------------------------------------------

\* The steps of a connection and what its reads returned, in the order of
\* the log.
ConnLog(c) == SelectSeq(net, LAMBDA e : e.conn = c /\ e.kind \in {"conn", "read"})

\* The steps of a STARTTLS connect up to the handshake.
StartTlsOrder == <<"TCP", "greeting", "STARTTLS", "STARTTLS response", "TLS">>

\* C14: in starttls mode, on the standard and on the raw path, the steps are
\* TCP connect, read of the greeting, write of STARTTLS, read of its answer,
\* TLS handshake, in this order, and the handshake is started only when the
\* answer read was the tagged OK of the STARTTLS command.
C14_TlsOnlyAfterTaggedOk ==
  cfg.security = "starttls" =>
    \A c \in {"std", "raw"} :
      LET steps == SelectSeq(ConnLog(c), LAMBDA e : e.kind = "conn"
                                          /\ e.what \in {"TCP", "greeting", "STARTTLS",
                                                         "STARTTLS response", "TLS"})
      IN  /\ Len(steps) <= Len(StartTlsOrder)
          /\ \A i \in 1..Len(steps) : steps[i].what = StartTlsOrder[i]
          /\ \A i \in 1..Len(ConnLog(c)) :
               ConnLog(c)[i] = Ev("conn", c, "TLS") =>
                 i > 1 /\ ConnLog(c)[i - 1] = Ev("read", c, "tagged OK")

\* The event carries the credentials: the LOGIN or AUTHENTICATE of connect,
\* or command a1 of the raw session.
IsCredentials(e) ==
  \/ e.kind = "conn" /\ e.conn = "std" /\ e.what \in {"LOGIN", "AUTHENTICATE"}
  \/ e.kind = "send" /\ e.conn = "raw" /\ e.tag = TagA1

\* The TLS handshake of the connection of event net[i] came before it.
AfterTls(i) == \E j \in 1..(i - 1) : net[j] = Ev("conn", net[i].conn, "TLS")

\* C15: in tls mode every read and write of IMAP data on a connection comes
\* after that connection's TLS handshake; in tls and starttls modes the
\* credentials are sent after the handshake, on the standard and on the raw
\* path.
C15_NoPlaintextBeforeTls ==
  \A i \in 1..Len(net) :
    /\ (cfg.security = "tls" /\ net[i] \notin {Ev("conn", net[i].conn, "TCP"),
                                               Ev("conn", net[i].conn, "TLS")}) =>
         AfterTls(i)
    /\ (cfg.security \in {"tls", "starttls"} /\ IsCredentials(net[i])) => AfterTls(i)

\* In tls mode the standard session logged in, and the raw session after it.
C15_Witness ==
  /\ cfg.security = "tls"
  /\ \E i \in 1..Len(net) : net[i] = Ev("conn", "std", "LOGIN")
  /\ \E i \in 1..Len(net) : net[i] = EvT("send", TagA1, "LOGIN")

\* The answers the authenticator gave in this connect, in order.
AnswersSent == SelectSeq(net, LAMBDA e : e.kind = "answer")

\* C16: the XOAUTH2 authenticator answers the first challenge with
\* "user=<username>\x01auth=Bearer <token>\x01\x01" and every later challenge
\* of the exchange with an empty response; the credential string is sent at
\* most once.
C16_CredentialsOnceThenEmpty ==
  LET credentials == <<"u", "s", "e", "r", "=", "u", SOH, "a", "u", "t", "h", "=",
                       "B", "e", "a", "r", "e", "r", SP, "t", SOH, SOH>>
  IN  /\ AnswersSent # <<>> => cfg.auth_method = "oauth2"
      /\ \A i \in 1..Len(AnswersSent) :
           AnswersSent[i].tag = IF i = 1 THEN credentials ELSE <<>>

\* A second challenge was answered.
C16_Witness ==
  /\ Len(AnswersSent) = 2
  /\ AnswersSent[2].tag = <<>>
  /\ cpc = "returned" /\ result = Err("XOAUTH2 authentication failed: ", <<>>)

\* connect failed in one of its phases and the command returned its error.
ConnectFailed ==
  /\ cpc = "returned"
  /\ ConnLog("std") # <<>>
  /\ \A i \in 1..Len(net) : net[i] # Ev("conn", "std", "session")

\* The phase a connect error names, by the head of its text.
PhaseOfError(pre) ==
  CASE pre = "TCP connect to " -> {"TCP"}
    [] pre \in {"TLS handshake with ", "TLS upgrade after STARTTLS failed: "} -> {"TLS"}
    [] pre \in {"Failed to read server greeting: ", "Unexpected server greeting: "} ->
         {"greeting"}
    [] pre = "Failed to send STARTTLS: " -> {"STARTTLS"}
    [] pre \in {"Failed to read STARTTLS response: ", "STARTTLS rejected: "} ->
         {"STARTTLS response"}
    [] pre = "Login failed: " -> {"LOGIN"}
    [] pre = "XOAUTH2 authentication failed: " -> {"AUTHENTICATE"}
    [] OTHER -> {}

\* C17: every failure of connect is returned as an error that names the
\* phase that failed (the last one tried) and holds the configured host, and
\* no phase is tried twice.
C17_ConnectErrorNamesPhaseAndHost ==
  ConnectFailed =>
    LET steps == SelectSeq(ConnLog("std"), LAMBDA e : e.kind = "conn")
    IN  /\ result.kind = "err"
        /\ PhaseOfError(result.pre) = {steps[Len(steps)].what}
        /\ Contains(result.arg, Host)
        /\ \A i, j \in 1..Len(steps) : steps[i] = steps[j] => i = j

\* ------------------------------------------------------------------------
\* UID searches
\* ------------------------------------------------------------------------

\* C18: whatever UIDs the server returns for the search, the result of
\* fetch_new_uids holds no UID less than or equal to last_uid, last_uid
\* itself included; it holds the UIDs of the answer above last_uid.
C18_NoUidUpToLast ==
  (op = "imap_fetch_new_uids" /\ stdResult.kind = "ok") =>
    /\ \A i \in 1..Len(stdResult.val) : stdResult.val[i] > since_uid
    /\ \A u \in SearchUids :
         (\E i \in 1..Len(stdResult.val) : stdResult.val[i] = u) <=>
           (u > since_uid /\ \E j \in 1..Len(served.items) : served.items[j] = u)

\* The answer held last_uid and a UID above it; only the latter was returned.
C18_Witness ==
  /\ op = "imap_fetch_new_uids" /\ since_uid = 7
  /\ served.items = <<8, 7>>
  /\ result = Ok(<<8>>)

\* C19: for every search answer, the sequences search_all_uids and
\* fetch_new_uids return are strictly ascending, so no UID is in them twice.
C19_StrictlyAscending ==
  (op \in SearchOps /\ stdResult.kind = "ok") =>
    \A i, j \in 1..Len(stdResult.val) : i < j => stdResult.val[i] < stdResult.val[j]

\* An answer iterated out of order was returned in order.
C19_Witness ==
  /\ op = "imap_search_all_uids"
  /\ served.items = <<8, 6, 7>>
  /\ result = Ok(<<6, 7, 8>>)

\* ------------------------------------------------------------------------
\* Flags
\* ------------------------------------------------------------------------

\* The UID STORE commands imap_set_flags has sent.
StoresSent ==
  SelectSeq(net, LAMBDA e : op = "imap_set_flags" /\ e.kind = "send" /\ e.what = "UID STORE")

\* A flag name without its leading backslash.
Bare(f) == IF StartsWith(f, <<BSL>>) THEN Tail(f) ELSE f

\* C20: the query imap_set_flags sends is "+FLAGS" when add is true and
\* "-FLAGS" when it is false, a space, and the flags between parentheses,
\* joined by single spaces, each as one backslash and its name whether or
\* not the name was given with the backslash.
C20_FlagWireForm ==
  \A k \in 1..Len(StoresSent) :
    LET text == StoresSent[k].tag
        sign == IF add THEN "+" ELSE "-"
        names == [i \in 1..Len(flags) |-> <<BSL>> \o Bare(flags[i])]
    IN  /\ text = <<sign, "F", "L", "A", "G", "S", SP, "(">> \o Join(names, <<SP>>) \o <<")">>
        /\ ~Contains(text, <<BSL, BSL>>)
        /\ ~Contains(text, <<SP, SP>>)

\* "Seen" and "\Flagged" were removed: the query is "-FLAGS (\Seen \Flagged)".
C20_Witness ==
  /\ flags = <<<<"S", "e", "e", "n">>, kFlagged>> /\ ~add
  /\ Len(StoresSent) = 1
  /\ StoresSent[1].tag = <<"-", "F", "L", "A", "G", "S", SP, "(">> \o kSeen \o <<SP>>
                           \o kFlagged \o <<")">>

\* ------------------------------------------------------------------------
\* INTERNALDATE
\* ------------------------------------------------------------------------

\* The text has the form DD-Mon-YYYY HH:MM:SS +ZZZZ or -ZZZZ.
IsInternalDate(s) ==
  /\ Len(s) = 26
  /\ s[3] = "-" /\ s[7] = "-" /\ s[12] = SP /\ s[15] = ":" /\ s[18] = ":" /\ s[21] = SP
  /\ s[22] \in {"+", "-"}
  /\ \A i \in {1, 2, 8, 9, 10, 11, 13, 14, 16, 17, 19, 20, 23, 24, 25, 26} : IsDigit(s[i])
  /\ MonthOf(ToLowercase(SubSeq(s, 4, 6))) # 0

\* The fields of such a text, read by column.
FieldsOf(s) ==
  [d |-> DigitsValue(SubSeq(s, 1, 2)),
   m |-> MonthOf(ToLowercase(SubSeq(s, 4, 6))),
   y |-> DigitsValue(SubSeq(s, 8, 11)),
   hh |-> DigitsValue(SubSeq(s, 13, 14)),
   mi |-> DigitsValue(SubSeq(s, 16, 17)),
   ss |-> DigitsValue(SubSeq(s, 19, 20)),
   off |-> (IF s[22] = "-" THEN -1 ELSE 1)
           * (DigitsValue(SubSeq(s, 23, 24)) * 3600 + DigitsValue(SubSeq(s, 25, 26)) * 60)]

\* The length of a month in the Gregorian calendar.
DaysIn(m, y) ==
  IF m = 2 THEN (IF (y % 4 = 0 /\ y % 100 # 0) \/ y % 400 = 0 THEN 29 ELSE 28)
  ELSE IF m \in {4, 6, 9, 11} THEN 30 ELSE 31

CalendarValid(f) ==
  /\ f.y >= 1970
  /\ f.d >= 1 /\ f.d <= DaysIn(f.m, f.y)
  /\ f.hh <= 23 /\ f.mi <= 59 /\ f.ss <= 59

\* Days from 1970-01-01 to a date of the proleptic Gregorian calendar, by the
\* count of whole 400-year eras and the day of the era (years from March).
DaysFromCivil(y, m, d) ==
  LET yy == IF m <= 2 THEN y - 1 ELSE y
      era == yy \div 400
      yoe == yy - era * 400
      doy == (153 * (IF m > 2 THEN m - 3 ELSE m + 9) + 2) \div 5 + d - 1
      doe == yoe * 365 + yoe \div 4 - yoe \div 100 + doy
  IN  era * 146097 + doe - 719468

DateParsed == call.fn = "parse_imap_date" /\ ret.kind = "ok"

Date2000 == DateText(1, <<"J", "a", "n">>, 2000, <<0, 0, 0>>, <<"+", "0", "0", "0", "0">>)

DateLeap2024 == DateText(29, <<"F", "e", "b">>, 2024, <<12, 0, 0>>, <<"+", "0", "0", "0", "0">>)

DateNoLeap2023 == DateText(29, <<"F", "e", "b">>, 2023, <<12, 0, 0>>, <<"+", "0", "0", "0", "0">>)

\* C21: for a calendar-valid INTERNALDATE of 1970 or later, parse_imap_date
\* returns the seconds from 1970-01-01T00:00:00Z to that instant: the Gregorian
\* day count times 86400, plus the time of day, minus the signed zone offset.
\* 01-Jan-2000 00:00:00 +0000 gives 946684800 and 29-Feb-2024 12:00:00 +0000
\* parses.
C21_DateIsUnixTime ==
  DateParsed =>
    /\ IsInternalDate(call.arg) /\ CalendarValid(FieldsOf(call.arg)) =>
         LET f == FieldsOf(call.arg)
         IN  /\ ret.val.some
             /\ (ret.val.days - DaysFromCivil(f.y, f.m, f.d)) * 86400 + ret.val.secs
                = f.hh * 3600 + f.mi * 60 + f.ss - f.off
    /\ call.arg = Date2000 =>
         ret.val.some /\ ret.val.days * 86400 + ret.val.secs = 946684800
    /\ call.arg = DateLeap2024 => ret.val.some

C21_Witness ==
  /\ DateParsed
  /\ call.arg = DateText(29, <<"F", "e", "b">>, 2024, <<23, 59, 59>>, <<"+", "0", "5", "3", "0">>)
  /\ ret.val = SomeTime(19782, 86399 - 19800)

\* C22: parse_imap_date returns no timestamp for a date that is not in the
\* calendar: a day number outside 1..(length of the month in that year).
C22_NoTimeForNoDate ==
  DateParsed /\ IsInternalDate(call.arg) =>
    LET f == FieldsOf(call.arg)
    IN  (f.d < 1 \/ f.d > DaysIn(f.m, f.y)) => ~ret.val.some

\* ------------------------------------------------------------------------
\* The SMTP envelope and the relayed bytes
\* ------------------------------------------------------------------------

EnvelopeExtracted == call.fn = "extract_envelope" /\ ret.kind # "none"

\* The message has a From address: its From header has a first entry, with
\* an address.
HasFrom(m) == m.from # <<>> /\ m.from[1] # NoAddr

\* The addresses of a header, in its order.
AddressesOf(list) == SelectSeq(list, LAMBDA e : e # NoAddr)

\* user@domain: one '@', with text on both sides.
IsMailbox(e) ==
  /\ Cardinality({i \in 1..Len(e) : e[i] = "@"}) = 1
  /\ e[1] # "@" /\ e[Len(e)] # "@"

MailboxesOf(list) == SelectSeq(list, LAMBDA e : e # NoAddr /\ IsMailbox(e))

\* C25 as stated: extract_envelope succeeds only with a From address and at
\* least one recipient; without a From address it fails with "No From address
\* found in email", with a From address and no To/Cc/Bcc address with "No
\* recipients found in email"; on success the recipients are every address of
\* To, then Cc, then Bcc.
C25_EnvelopeFromAndAllRecipients ==
  EnvelopeExtracted /\ MailParse(call.arg).some =>
    LET m == MailParse(call.arg)
        all == AddressesOf(m.to) \o AddressesOf(m.cc) \o AddressesOf(m.bcc)
    IN  /\ ret.kind = "ok" => HasFrom(m) /\ all # <<>>
        /\ ~HasFrom(m) => ret = Err("No From address found in email", <<>>)
        /\ HasFrom(m) /\ all = <<>> => ret = Err("No recipients found in email", <<>>)
        /\ ret.kind = "ok" => ret.val.to = all

\* C25: extract_envelope succeeds exactly when the first From entry has an
\* address of the form user@domain and some To, Cc or Bcc entry has one; the
\* recipients are then those addresses of To, then Cc, then Bcc, the entries
\* without such an address left out.  Without a From address it fails with
\* "No From address found in email", with a From address that is no
\* user@domain with "Invalid From address", and otherwise without a recipient
\* with "No recipients found in email".
C25_EnvelopeFromAndValidRecipients ==
  EnvelopeExtracted =>
    LET m == MailParse(call.arg)
        valid == MailboxesOf(m.to) \o MailboxesOf(m.cc) \o MailboxesOf(m.bcc)
    IN  IF ~m.some
          THEN ret = Err("Failed to parse email for envelope extraction", <<>>)
        ELSE IF ~HasFrom(m) THEN ret = Err("No From address found in email", <<>>)
        ELSE IF ~IsMailbox(m.from[1]) THEN ret = Err("Invalid From address '", m.from[1])
        ELSE IF valid = <<>> THEN ret = Err("No recipients found in email", <<>>)
        ELSE ret = Ok([from |-> m.from[1], to |-> valid])

\* A message with one To and one Bcc address gave two recipients.
C25_Witness ==
  /\ EnvelopeExtracted
  /\ call.arg = RawMail(4, 2, 1, 2)
  /\ ret = Ok([from |-> AddrA, to |-> <<AddrB, AddrD>>])

EmailSent == call.fn = "send_raw_email" /\ ret.kind # "none"

\* The text is the unpadded base64url of some bytes.
IsBase64Url(text) == \E raw \in RawMails : B64Encode(raw) = text

BytesOf(text) == CHOOSE raw \in RawMails : B64Encode(raw) = text

\* C26: send_raw_email decodes, extracts the envelope, builds the transport
\* and sends, in that order: an input that is no unpadded base64url gives
\* "Base64 decode error", a message without envelope gives the error of the
\* extraction, both without any contact to an SMTP server, and an error of
\* the transport is met only after both passed; the bytes handed to the
\* transport are exactly the decoded input.
C26_DecodeEnvelopeBuildSend ==
  EmailSent =>
    /\ ~IsBase64Url(call.arg) =>
         ret = Err("Base64 decode error: ", <<>>) /\ net = <<>>
    /\ IsBase64Url(call.arg) /\ extract_envelope(BytesOf(call.arg)).kind = "err" =>
         ret = extract_envelope(BytesOf(call.arg)) /\ net = <<>>
    /\ ret.pre \in BuildErrors(call.cfg) =>
         /\ IsBase64Url(call.arg) /\ extract_envelope(BytesOf(call.arg)).kind = "ok"
         /\ net = <<>>
    /\ net # <<>> =>
         /\ Len(net) = 1 /\ net[1].conn = "smtp" /\ net[1].what = "send_raw"
         /\ B64Encode(net[1].tag) = call.arg

\* A message was handed to the transport and sent.
C26_Witness ==
  /\ EmailSent /\ ret.kind = "ok"
  /\ call.arg = B64Encode(RawMail(4, 2, 2, 2))
  /\ net = <<EvSendRaw(RawMail(4, 2, 2, 2))>>

\* ------------------------------------------------------------------------
\* Snippets
\* ------------------------------------------------------------------------

MessageParsed == call.fn = "parse_message" /\ ret.kind = "ok"

\* The text with its leading and trailing whitespace removed.
Stripped(t) ==
  LET inner == {i \in 1..Len(t) : ~IsWhitespace(t[i])}
  IN  IF inner = {} THEN <<>>
      ELSE SubSeq(t, CHOOSE i \in inner : \A j \in inner : i <= j,
                     CHOOSE i \in inner : \A j \in inner : i >= j)

\* Two texts are the same but for which whitespace character stands where.
SameButWhitespace(s, t) ==
  /\ Len(s) = Len(t)
  /\ \A i \in 1..Len(s) : s[i] = t[i] \/ (IsWhitespace(s[i]) /\ IsWhitespace(t[i]))

Collapsed(t) ==
  LET firsts == SelectSeq([i \in 1..Len(t) |-> i],
                          LAMBDA i : ~IsWhitespace(t[i]) \/ i = 1 \/ ~IsWhitespace(t[i - 1]))
  IN  [k \in 1..Len(firsts) |-> IF IsWhitespace(t[firsts[k]]) THEN SP ELSE t[firsts[k]]]

\* C28: in the snippet every maximal run of whitespace of the text body is
\* exactly one space, leading and trailing whitespace is removed, and the
\* limit of 200 characters applies to the collapsed text.
C28_WhitespaceRunsCollapsed ==
  MessageParsed /\ call.arg.some =>
    LET t == Collapsed(Stripped(call.arg.text))
    IN  ret.val.text = IF Len(t) > SnippetMax
                         THEN SubSeq(t, 1, SnippetMax) \o <<".", ".", ".">>
                         ELSE t


\* ------------------------------------------------------------------------
\* list_folders
\* ------------------------------------------------------------------------

\* imap_list_folders had its LIST accepted.
FoldersListed ==
  /\ op = "imap_list_folders"
  /\ \E i \in 1..Len(net) : net[i] = Ev("ok", "std", "LIST")

\* The STATUS commands of the log, in order.
StatusSent == SelectSeq(net, LAMBDA e : e.kind = "send" /\ e.what = "STATUS")

\* The answers to the STATUS commands, in order.
StatusAnswered == SelectSeq(net, LAMBDA e : e.kind \in {"ok", "no"} /\ e.what = "STATUS")

\* C29: list_folders returns one Folder per mailbox name the LIST stream
\* yielded, in that order, whatever the STATUS commands gave: the call
\* returns Ok, a folder whose STATUS failed has message count 0 and unseen
\* count 0, and every STATUS command names the mailbox by the raw wire path of
\* its folder.
C29_FolderPerListedMailbox ==
  FoldersListed =>
    /\ stdResult.kind = "ok"
    /\ Len(stdResult.val) = Len(Names(served.items))
    /\ Len(StatusSent) = Len(stdResult.val)
    /\ Len(StatusAnswered) = Len(stdResult.val)
    /\ \A i \in 1..Len(stdResult.val) :
         /\ stdResult.val[i].raw_path = Names(served.items)[i].raw
         /\ StatusSent[i].tag = stdResult.val[i].raw_path
         /\ StatusAnswered[i].kind = "no" =>
              stdResult.val[i].exists = 0 /\ stdResult.val[i].unseen = 0

\* Two mailboxes listed, the first with a raw path that is not its display
\* path and a STATUS that failed, the second counted.
C29_Witness ==
  /\ FoldersListed
  /\ Len(stdResult.val) = 2
  /\ stdResult.val[1].raw_path = <<"A", "/", "C", "a", "f", "&", "A", "O", "k", "-">>
  /\ stdResult.val[1].path = <<"A", "/", "C", "a", "f", EAcute>>
  /\ stdResult.val[1].name = <<"C", "a", "f", EAcute>>
  /\ StatusAnswered[1].kind = "no"
  /\ stdResult.val[1].exists = 0
  /\ StatusAnswered[2].kind = "ok"
  /\ stdResult.val[2].exists = 3


\* ------------------------------------------------------------------------
\* Several invocations at once
\* ------------------------------------------------------------------------

\* The answers the server gave to the commands invocation i sent, in order.
AnswersTo(i) ==
  IF call[i].conn = 0 THEN <<>>
  ELSE SelectSeq(net[call[i].conn].answered, LAMBDA a : a.by = i)

\* C24: with several invocations running at once, no two of them use the same
\* connection, every answer an invocation has read is the answer to a command
\* it sent itself, with the tag of that command, and the result of an
\* invocation that has returned is the one its own commands' answers give,
\* whatever the other invocations did in between.
C24_InvocationsIndependent ==
  \A i \in Invocations :
    /\ \A j \in Invocations \ {i} : call[i].conn # 0 => call[j].conn # call[i].conn
    /\ \A k \in 1..Len(call[i].got) :
         /\ call[i].got[k].by = i
         /\ call[i].got[k].tag = k
         /\ call[i].got[k] = AnswersTo(i)[k]
    /\ call[i].pc = "done" /\ call[i].conn # 0 =>
         /\ call[i].got = AnswersTo(i)
         /\ ret[i] = ResultFrom(call[i].op, AnswersTo(i))

\* Invocation 1 has returned the UIDs of its search while invocation 2, which
\* started the same function, waits for its SELECT, whose refusal is on its
\* connection and not yet read.
C24_Witness ==
  /\ call[1].pc = "done" /\ ret[1] = Ok(<<7>>)
  /\ call[2].pc = "open" /\ call[2].op = call[1].op
  /\ call[2].sent = 2 /\ Len(call[2].got) = 1
  /\ Len(net[call[2].conn].answered) = 2
  /\ ~net[call[2].conn].answered[2].ok


\* ------------------------------------------------------------------------
\* One FETCH response stream, read by both paths
\* ------------------------------------------------------------------------

\* The most items of the stream.
MaxStream == 2

StreamFlags == {<<>>, <<kSeen>>, <<kFlagged, kDraft>>}

StreamDates ==
  {DateText(1, <<"J", "a", "n">>, 2024, <<12, 0, 0>>, <<"+", "0", "0", "0", "0">>),
   DateText(29, <<"F", "e", "b">>, 2024, <<23, 59, 59>>, <<"+", "0", "5", "3", "0">>)}

StreamBodies == {<<"x", ":">>, <<>>}

\* A conformant item: FLAGS, INTERNALDATE and the body as a literal, the UID
\* being given by the place in the stream; the server puts the literal after
\* the other attributes or before them (RFC 3501 fixes no order).
StreamItems ==
  [flags : StreamFlags, date : StreamDates, body : StreamBodies,
   literal : {"last", "first"}]

Streams == UNION {[1..n -> StreamItems] : n \in 1..MaxStream}

UidAt(i) == 6 + i

RECURSIVE JoinSp(_)
JoinSp(texts) ==
  IF texts = <<>> THEN <<>>
  ELSE IF Len(texts) = 1 THEN texts[1]
  ELSE texts[1] \o <<SP>> \o JoinSp(Tail(texts))

\* 'UID <n> FLAGS (<flags>) INTERNALDATE "<date>"'
AttrBytes(it, i) ==
  kUID \o Dec(UidAt(i)) \o <<SP>> \o kFLAGS \o JoinSp(it.flags) \o <<")", SP>>
  \o kINTERNALDATE \o it.date \o <<DQ>>

\* 'BODY[] {<n>}\r\n' and the n bytes.
LiteralBytes(it) ==
  kBODY \o <<"{">> \o Dec(Len(it.body)) \o <<"}">> \o CRLF \o it.body

\* "* <i> FETCH (" attributes ")\r\n"
ItemBytes(it, i) ==
  kStar \o Dec(i) \o <<SP>> \o kFETCH \o <<SP, "(">>
  \o (IF it.literal = "last" THEN AttrBytes(it, i) \o <<SP>> \o LiteralBytes(it)
      ELSE LiteralBytes(it) \o <<SP>> \o AttrBytes(it, i))
  \o <<")">> \o CRLF

RECURSIVE StreamBytes(_, _)
StreamBytes(items, i) ==
  IF i > Len(items) THEN <<>> ELSE ItemBytes(items[i], i) \o StreamBytes(items, i + 1)

\* dt.timestamp() of the INTERNALDATE async-imap decoded.
Timestamp(date) ==
  LET f == FieldsOf(date)
  IN  SomeTime(DaysFromCivil(f.y, f.m, f.d), f.hh * 3600 + f.mi * 60 + f.ss - f.off)

\* The Fetch async-imap decodes item i into: every attribute, whatever the
\* order they came in.
Decoded(items) ==
  [i \in 1..Len(items) |->
     [uid |-> UidAt(i), body |-> SomeText(items[i].body), flags |-> items[i].flags,
      internal_date |-> Timestamp(items[i].date)]]

HasFlag(fetch, flag) == \E k \in 1..Len(fetch.flags) : fetch.flags[k] = flag

\* The loop of fetch_messages over the decoded items: what it hands to
\* parse_message, for the items parse_message takes.
RECURSIVE FetchLoop(_)
FetchLoop(fetches) ==
  IF fetches = <<>> THEN <<>>
  ELSE LET fetch == Head(fetches)
       IN  (IF fetch.uid = None \/ ~fetch.body.some THEN <<>>
            ELSE IF ~MimeParses(fetch.body.text) THEN <<>>
            ELSE <<[uid |-> fetch.uid, is_read |-> HasFlag(fetch, kSeen),
                    is_starred |-> HasFlag(fetch, kFlagged),
                    is_draft |-> HasFlag(fetch, kDraft),
                    internal_date |-> fetch.internal_date,
                    raw_size |-> Len(fetch.body.text), raw |-> fetch.body.text]>>)
           \o FetchLoop(Tail(fetches))

\* The server has sent the whole answer to UID FETCH, ended by its tagged OK;
\* raw_parse_fetch_responses starts on it.
InitPaths ==
  \E items \in Streams :
    /\ call = [fn |-> "fetch", arg |-> items, cfg |-> NoCfg]
    /\ ret = NoResult
    /\ wire = StreamBytes(items, 1) \o TagOkLine
    /\ buf = <<>> /\ srv = "silent" /\ mss = BufCap /\ pending = NoPending
    /\ pc = "fetch" /\ tag = TagA3 /\ line = <<>> /\ response = <<>>
    /\ need = 0 /\ body = <<>> /\ cur = NoCur /\ raws = <<>> /\ parseRes = NoResult
    /\ ann = NoAnn /\ afterLit = FALSE /\ seen = NoSeen
    /\ run = 0 /\ twin = <<>> /\ first = NoResult
    /\ op = "none" /\ uids = <<>> /\ cfg = NoCfg /\ payload = <<>>
    /\ since_uid = 0 /\ flags = <<>> /\ add = FALSE
    /\ cpc = "idle" /\ net = <<>> /\ result = NoResult /\ stdResult = NoResult
    /\ served = NoServed /\ rawArgs = NoArgs /\ logoutErr = FALSE

\* Both paths have read the stream: the messages of fetch_messages, and those
\* of raw_fetch_messages.
BothPaths ==
  /\ call.fn = "fetch" /\ ret = NoResult
  /\ pc = "parsed"
  /\ ret' = Ok([std |-> Ok(FetchLoop(Decoded(call.arg))),
                raw |-> IF parseRes.kind = "err" THEN parseRes
                        ELSE Ok(Normalize(parseRes.val))])
  /\ UNCHANGED <<call, NoSessionVars>>

NextPaths ==
  \/ SocketRead
  \/ LineFetch
  \/ ExactStep
  \/ LineClosing
  \/ BothPaths

SpecPaths == InitPaths /\ [][NextPaths]_vars

\* ------------------------------------------------------------------------
\* Standard path and raw path
\* ------------------------------------------------------------------------

PathsCompared == call.fn = "fetch" /\ ret.kind = "ok"

\* C30: for one stream of conformant FETCH items, the standard path and the
\* raw path hand the same messages to parse_message: the same UIDs in the same
\* order, the same read, starred and draft flags, the same INTERNALDATE
\* timestamp and the same body bytes.
C30_PathsAgree ==
  PathsCompared => ret.val.std = ret.val.raw


\* ------------------------------------------------------------------------
\* End to end: starttls, password, one FETCH response
\* ------------------------------------------------------------------------

\* imap_fetch_messages with security "starttls" and auth_method "password"
\* has returned, its SELECT having reported a mailbox that holds messages and
\* the stream of its UID FETCH having had one item.
StartTlsFetchReturned ==
  /\ op = "imap_fetch_messages" /\ result.kind # "none"
  /\ cfg.security = "starttls" /\ cfg.auth_method = "password"
  /\ served.exists > 0
  /\ Len(served.items) = 1

\* The whole FETCH responses of the server of the raw session that carry a
\* UID and a literal mail-parser takes: their bytes, and what they say.
WholeResponses ==
  {[bytes |-> SegMsg(7, <<"x", ":">>), uid |-> 7, flags |-> <<>>, size |-> 2],
   [bytes |-> SegLiteralFirst, uid |-> 7, flags |-> kSeen, size |-> 2]}

\* The raw session got as far as UID FETCH, and the server answered it with
\* the response r and the tagged OK, nothing else, all of it read by the
\* session.
RawAnsweredWith(r) ==
  /\ IsEmptySignal(stdResult)
  /\ tag = TagA3
  /\ pending.data = r.bytes \o TagOkLine
  /\ wire = <<>> /\ buf = <<>>

\* C23: with security "starttls" and auth_method "password", against a server
\* that greets, accepts STARTTLS, LOGIN and SELECT and answers UID FETCH with
\* one FETCH response that carries a UID and one literal holding a valid
\* message, then the tagged OK, imap_fetch_messages returns exactly one
\* message: its UID is the UID of the response, its read, starred and draft
\* flags say whether \Seen, \Flagged and \Draft are in the FLAGS list of the
\* response, and its raw size is the length of the literal.  On the standard
\* session the one response is the one item of the stream.
C23_OneResponseOneMessage ==
  StartTlsFetchReturned =>
    /\ served.items = <<"good">> => result = Ok(<<1>>)
    /\ \A r \in WholeResponses :
         RawAnsweredWith(r) =>
           /\ result.kind = "ok"
           /\ Len(result.val) = 1
           /\ result.val[1].uid = r.uid
           /\ result.val[1].is_read = Contains(r.flags, kSeen)
           /\ result.val[1].is_starred = Contains(r.flags, kFlagged)
           /\ result.val[1].is_draft = Contains(r.flags, kDraft)
           /\ result.val[1].raw_size = r.size


\* ------------------------------------------------------------------------
\* One message for every response with UID and literal
\* ------------------------------------------------------------------------

\* raw_parse_fetch_responses has returned on the stream of call.arg.
StreamParsed == call.fn = "fetch" /\ pc = "parsed"

\* C36: every FETCH response of the stream that carries a UID and a body
\* literal gives exactly one message of the raw engine's result, in the order
\* of the stream, with the UID and the flags of that response, wherever the
\* server put the literal among the attributes.
C36_OneMessagePerResponse ==
  StreamParsed =>
    /\ parseRes.kind = "ok"
    /\ Len(parseRes.val) = Len(call.arg)
    /\ \A i \in 1..Len(call.arg) :
         /\ parseRes.val[i].uid = UidAt(i)
         /\ parseRes.val[i].body = call.arg[i].body
         /\ parseRes.val[i].is_read = HasFlag(call.arg[i], kSeen)
         /\ parseRes.val[i].is_starred = HasFlag(call.arg[i], kFlagged)
         /\ parseRes.val[i].is_draft = HasFlag(call.arg[i], kDraft)


\* ------------------------------------------------------------------------
\* raw_parse_fetch_responses: an error unless the tagged OK was read
\* ------------------------------------------------------------------------

\* The read_line of the loop is about to return the line of the tagged OK.
TaggedOkRead == pc = "fetch" /\ LineReady /\ StartsWith(GotLine, tag \o kOK)

\* What ends the FETCH before its tagged OK, seen by the loop's read_line or by
\* a read_exact: the end of the stream, a read that fails, a tagged NO or BAD,
\* a literal the stream ends in, the deadline of read_line.
FetchFailure ==
  \/ /\ pc = "fetch" /\ LineReady
     /\ \/ GotLine = <<>>
        \/ ~Utf8Ok(GotLine)
        \/ StartsWith(GotLine, tag \o kNO)
        \/ StartsWith(GotLine, tag \o kBAD)
  \/ ReadingExact /\ buf = <<>> /\ wire = <<>> /\ srv = "closed"
  \/ pc = "fetch" /\ buf = <<>> /\ wire = <<>> /\ srv # "closed"

\* One step of the function: a failure makes it return an error, and it
\* returns a success only from the read of the tagged OK.
FetchStep ==
  /\ FetchFailure => pc' = "parsed" /\ parseRes'.kind = "err"
  /\ (parseRes'.kind = "ok" /\ parseRes.kind # "ok") => TaggedOkRead

\* The read_line after the last body read so far failed.
ClosingReadFailed == ann.pushed /\ ~Utf8Ok(ann.closing)

\* What the caller gets of the messages parsed: all of them with Ok, none
\* with Err.
MessagesReturned == IF parseRes.kind = "ok" THEN parseRes.val ELSE <<>>

\* C34: raw_parse_fetch_responses returns a success only when it has read the
\* line that begins with "<tag> OK"; when the stream ends, a read fails, a
\* literal is cut short, the deadline passes or a tagged NO or BAD comes
\* first, it returns an error, and an error carries none of the messages
\* parsed so far.
C34_ErrorUnlessTaggedOk ==
  /\ [][FetchStep]_vars
  /\ [](pc = "parsed" => parseRes.kind \in {"ok", "err"})
  /\ [](ClosingReadFailed => parseRes.kind # "ok")
  /\ [](parseRes.kind = "err" => MessagesReturned = <<>> /\ parseRes.val = <<>>)


\* ------------------------------------------------------------------------
\* Literal bytes are never read as protocol text
\* ------------------------------------------------------------------------

\* How many bytes of the stream were taken since the last literal was
\* announced (the stream is all on the wire when the function starts).
Consumed == Len(ann.rest) - Len(Remaining)

\* A literal was announced and the function is reading it.
InsideLiteral == ann.n # None /\ pc \in {"literal", "discard"}

\* C35: no byte of an announced literal is read as protocol text.  While the
\* literal is read the function neither returns nor adds a message; every
\* line it reads after the announcement starts at or after the end of the
\* literal; a literal with a UID gives one message and a literal without UID
\* none, whatever lines the literal holds.
C35_LiteralNeverProtocolText ==
  /\ InsideLiteral => parseRes.kind = "none" /\ raws = ann.raws /\ Consumed <= ann.n
  /\ (ann.n # None /\ pc \in {"fetch", "closing"}) => Consumed - Len(line) >= ann.n
  /\ (ann.n # None /\ pc \in {"fetch", "closing"} /\ ~ann.pushed) => raws = ann.raws
  /\ ann.pushed => raws = Append(ann.raws, raws[Len(raws)])

\* The function has returned Ok with two messages: the body of the first is
\* the two lines "a3 NO" and "a3 BAD", the body of the second is a line that
\* reads like a FETCH response announcing a literal.
C35_Witness ==
  /\ pc = "parsed" /\ parseRes.kind = "ok"
  /\ Len(parseRes.val) = 2
  /\ parseRes.val[1].body = BodyNoBad
  /\ parseRes.val[2].body = BodyFetch


\* ------------------------------------------------------------------------
\* raw_fetch_messages and raw_fetch_diagnostic, command by command
\* ------------------------------------------------------------------------

RawFns == {"raw_fetch_messages", "raw_fetch_diagnostic"}

\* config.username: plain, with a double quote, ending in a backslash, and
\* with a line end followed by the text of a command.
Usernames ==
  {<<"u">>, <<"u", DQ, SP, "x">>, <<"u", BSL>>, <<"u", CR, LF, "a9", SP, "NOOP">>}

\* config.password (the access token when auth_method is "oauth2").
Passwords == {<<"p">>, <<"p", DQ>>}

\* The folder argument.
FolderNames == {<<"INBOX">>, <<"f", DQ, CR, LF, "a9", SP, "DELETE", SP, DQ, "f">>}

\* The uid_range argument.
UidRange == <<"7:9">>

\* The tags of the commands a session sends after connecting.
SessionTags == <<TagA1, TagA2, TagA3, TagA4>>

\* How the server answers the commands a1, a2 and a3.
AnswerScripts == [1..3 -> {"OK", "NO"}]

\* base64::Engine::encode(STANDARD, ...): text over A-Z a-z 0-9 + / =, kept
\* as one token.
XOAuth2B64(user, token) == <<"base64">>

\* login_cmd.  raw_fetch_diagnostic has one format for every auth_method.
login_cmd(f, c) ==
  IF f = "raw_fetch_messages" /\ c.auth_method = "oauth2"
    THEN TagA1 \o <<SP, "AUTHENTICATE", SP, "XOAUTH2", SP>>
           \o XOAuth2B64(c.username, c.password) \o CRLF
    ELSE TagA1 \o <<SP, "LOGIN", SP, DQ>> \o c.username \o <<DQ, SP, DQ>> \o c.password
           \o <<DQ>> \o CRLF

\* select_cmd
select_cmd(folder) == TagA2 \o <<SP, "SELECT", SP, DQ>> \o folder \o <<DQ>> \o CRLF

\* fetch_cmd
fetch_cmd(f, uid_range) ==
  TagA3 \o <<SP, "UID", SP, "FETCH", SP>> \o uid_range \o <<SP>>
    \o (IF f = "raw_fetch_messages"
          THEN <<"(UID", SP, "FLAGS", SP, "INTERNALDATE", SP, "BODY.PEEK[])">>
          ELSE <<"(UID", SP, "FLAGS)">>)
    \o CRLF

\* b"a4 LOGOUT\r\n"
logout_cmd == TagA4 \o <<SP, "LOGOUT">> \o CRLF

\* b"a0 STARTTLS\r\n" of raw_connect_starttls
starttls_cmd == TagA0 \o <<SP, "STARTTLS">> \o CRLF

\* The k-th write of function f after the connection is up.
SessionWrite(f, k) ==
  IF k = 1 THEN login_cmd(f, call.cfg)
  ELSE IF k = 2 THEN select_cmd(call.arg.folder)
  ELSE IF k = 3 THEN fetch_cmd(f, call.arg.uid_range)
  ELSE logout_cmd

\* raw_fetch_messages reads on to the tagged line of a command and returns at
\* `?` unless it is OK; raw_fetch_diagnostic adds what one read returned to
\* its output and goes on.
ChecksAnswer(f) == f = "raw_fetch_messages"

At(phase, k) == [phase |-> phase, k |-> k]

InitRawFns ==
  /\ NoCommand
  /\ call \in [fn : {"raw"},
               cfg : [security : Securities, auth_method : AuthMethods,
                      username : Usernames, password : Passwords],
               arg : [folder : FolderNames, uid_range : {UidRange},
                      script : AnswerScripts],
               at : {[f \in RawFns |-> At("connect", 0)]}]
  /\ ret = [f \in RawFns |-> NoResult]
  /\ net = [f \in RawFns |-> <<>>]

\* Connecting, to a server that accepts the connection: raw_connect_starttls
\* (which writes a0 STARTTLS) in starttls mode, connect_stream otherwise; `?`
\* returns the error of connect_stream for a security it does not know.
RawFnConnect(f) ==
  /\ call.at[f].phase = "connect"
  /\ IF call.cfg.security \notin {"tls", "starttls", "none"}
       THEN /\ ret' = [ret EXCEPT ![f] = Err("Unknown security mode: ",
                                             <<call.cfg.security>>)]
            /\ call' = [call EXCEPT !.at[f] = At("done", 0)]
            /\ net' = net
       ELSE \/ /\ call.cfg.security = "starttls"
               /\ net' = [net EXCEPT ![f] = Append(@, starttls_cmd)]
               /\ call' = [call EXCEPT !.at[f] = At("send", 1)]
               /\ ret' = ret
            \/ /\ call.cfg.security # "starttls"
               /\ call' = [call EXCEPT !.at[f] = At("greeting", 0)]
               /\ UNCHANGED <<net, ret>>
  /\ UNCHANGED idleVars

\* The greeting is read (not in starttls mode) and not looked at.
RawFnGreeting(f) ==
  /\ call.at[f].phase = "greeting"
  /\ call' = [call EXCEPT !.at[f] = At("send", 1)]
  /\ UNCHANGED <<net, ret, idleVars>>

\* write_all of the next command; after a4 LOGOUT, whose result is ignored,
\* the function returns Ok.
RawFnSend(f) ==
  /\ call.at[f].phase = "send"
  /\ LET k == call.at[f].k
     IN  /\ net' = [net EXCEPT ![f] = Append(@, SessionWrite(f, k))]
         /\ IF k = 4
              THEN /\ call' = [call EXCEPT !.at[f] = At("done", 0)]
                   /\ ret' = [ret EXCEPT ![f] = Ok(<<>>)]
              ELSE /\ call' = [call EXCEPT !.at[f] = At("read", k)]
                   /\ ret' = ret
  /\ UNCHANGED idleVars

\* The answer to command k has come.
RawFnRead(f) ==
  /\ call.at[f].phase = "read"
  /\ LET k == call.at[f].k
     IN  IF ChecksAnswer(f) /\ call.arg.script[k] # "OK"
           THEN /\ call' = [call EXCEPT !.at[f] = At("done", 0)]
                /\ ret' = [ret EXCEPT ![f] = Err(IF k = 3 THEN "FETCH failed: "
                                                 ELSE "failed: ", SessionTags[k])]
           ELSE /\ call' = [call EXCEPT !.at[f] = At("send", k + 1)]
                /\ ret' = ret
  /\ UNCHANGED <<net, idleVars>>

NextRawFns ==
  \E f \in RawFns :
    \/ RawFnConnect(f)
    \/ RawFnGreeting(f)
    \/ RawFnSend(f)
    \/ RawFnRead(f)

SpecRawFns == InitRawFns /\ [][NextRawFns]_vars

\* Both functions have returned.
BothReturned == \A f \in RawFns : call.at[f].phase = "done"

\* The writes of f after the connection was up (a0 STARTTLS left out).
SessionWrites(f) == SelectSeq(net[f], LAMBDA w : w # starttls_cmd)

\* C31: for the same config, folder and UID range, and the same answers of
\* the server, raw_fetch_diagnostic writes the commands raw_fetch_messages
\* writes, and writes each command only when the one before it was answered
\* OK; the two differ in what they return.
C31_DiagnosticSendsSameCommands ==
  BothReturned =>
    /\ net["raw_fetch_diagnostic"] = net["raw_fetch_messages"]
    /\ \A k \in 2..Len(SessionWrites("raw_fetch_diagnostic")) :
         call.arg.script[k - 1] = "OK"


\* ------------------------------------------------------------------------
\* The command lines a server reads from what the raw engine writes
\* ------------------------------------------------------------------------

\* The lines of a client's bytes: a command line ends at CR LF (RFC 3501,
\* section 2.2.1).  Bytes after the last CR LF form an unfinished line.
RECURSIVE CommandLines(_)
CommandLines(b) ==
  IF b = <<>> THEN <<>>
  ELSE IF \E i \in 1..(Len(b) - 1) : b[i] = CR /\ b[i + 1] = LF
    THEN LET i == CHOOSE i \in 1..(Len(b) - 1) :
                    /\ b[i] = CR /\ b[i + 1] = LF
                    /\ \A j \in 1..(i - 1) : ~(b[j] = CR /\ b[j + 1] = LF)
         IN  <<SubSeq(b, 1, i - 1)>> \o CommandLines(Drop(b, i + 1))
  ELSE <<b>>

\* A quoted string that starts after the double quote at position i - 1 of
\* s: `\` takes the next character as it is, and an unescaped double quote
\* ends the string (RFC 3501, section 9: quoted, QUOTED-CHAR).  `end` is the
\* position of the closing quote, 0 when there is none.
RECURSIVE Quoted(_, _, _)
Quoted(s, i, acc) ==
  IF i > Len(s) THEN [end |-> 0, val |-> acc]
  ELSE IF s[i] = DQ THEN [end |-> i, val |-> acc]
  ELSE IF s[i] = BSL
    THEN IF i + 1 > Len(s) THEN [end |-> 0, val |-> acc]
         ELSE Quoted(s, i + 2, Append(acc, s[i + 1]))
  ELSE Quoted(s, i + 1, Append(acc, s[i]))

\* The arguments of a command line from position i on: atoms between spaces
\* and quoted strings; a quoted string that is not closed is "open".
RECURSIVE Arguments(_, _)
Arguments(s, i) ==
  IF i > Len(s) THEN <<>>
  ELSE IF s[i] = SP THEN Arguments(s, i + 1)
  ELSE IF s[i] = DQ
    THEN LET q == Quoted(s, i + 1, <<>>)
         IN  IF q.end = 0 THEN <<[kind |-> "open", val |-> q.val]>>
             ELSE <<[kind |-> "quoted", val |-> q.val]>> \o Arguments(s, q.end + 1)
  ELSE LET n == CHOOSE n \in 1..(Len(s) - i + 1) :
                  /\ \A j \in i..(i + n - 1) : s[j] \notin {SP, DQ}
                  /\ i + n > Len(s) \/ s[i + n] \in {SP, DQ}
       IN  <<[kind |-> "atom", val |-> SubSeq(s, i, i + n - 1)]>>
             \o Arguments(s, i + n)

AtomArg(v) == [kind |-> "atom", val |-> v]

QuotedArg(v) == [kind |-> "quoted", val |-> v]

\* What the server reads from one write of the client.
CommandsRead(w) == [i \in 1..Len(CommandLines(w)) |-> Arguments(CommandLines(w)[i], 1)]

\* The writes of LOGIN and of SELECT by function f so far.
LoginWrites(f) ==
  SelectSeq(net[f], LAMBDA w : w = login_cmd(f, call.cfg)
                               /\ Contains(w, <<"LOGIN">>))

SelectWrites(f) == SelectSeq(net[f], LAMBDA w : w = select_cmd(call.arg.folder))

\* C39: whatever the username, the password and the folder name are, the
\* server reads each LOGIN written by the raw engine as one command line with
\* the username and the password as its two quoted arguments, and each SELECT
\* as one command line with the folder name as its one quoted argument.
C39_ValuesStayQuoted ==
  \A f \in RawFns :
    /\ \A i \in 1..Len(LoginWrites(f)) :
         CommandsRead(LoginWrites(f)[i]) =
           <<(<<AtomArg(TagA1), AtomArg(<<"LOGIN">>), QuotedArg(call.cfg.username),
                QuotedArg(call.cfg.password)>>)>>
    /\ \A i \in 1..Len(SelectWrites(f)) :
         CommandsRead(SelectWrites(f)[i]) =
           <<(<<AtomArg(TagA2), AtomArg(<<"SELECT">>), QuotedArg(call.arg.folder)>>)>>


\* ------------------------------------------------------------------------
\* fetch_new_uids over the whole range of u32
\* ------------------------------------------------------------------------

\* A u32 value v is kept as v - 2^31, so that the 2^32 values of the type are
\* the integers from U32Zero to U32Max and their order is the order of u32.
U32Max == 2147483647

U32Zero == (-U32Max) - 1

\* The u32 values n and 2^32 - 1 - n, for a small n.
Low(n) == U32Zero + n

High(n) == U32Max - n

\* `last_uid + 1` on u32.  At 2^32 - 1 a build with overflow checks (cargo's
\* dev profile) panics with "attempt to add with overflow"; a build without
\* them (cargo's release profile) wraps to 0.
Builds == {"overflow-checks", "wrapping"}

Overflows(last_uid) == last_uid = U32Max

AddOne(last_uid) == IF Overflows(last_uid) THEN U32Zero ELSE last_uid + 1

\* The task of the command has panicked: the command gives no result.
Panicked == [kind |-> "panic", pre |-> "attempt to add with overflow", arg |-> <<>>,
             val |-> <<>>]

LastUids == {Low(0), Low(7), High(1), High(0)}

\* The UIDs of the messages of the folder.
Mailboxes == SUBSET {Low(1), Low(7), Low(9), High(0)}

\* The highest UID of the folder, what `*` stands for.
Highest(mailbox) == CHOOSE u \in mailbox : \A v \in mailbox : v <= u

\* The UIDs a server finds for UID SEARCH n:* (RFC 3501, section 6.4.8 and
\* seq-range): those from n on, and the highest one when n is above it.
Found(n, mailbox) ==
  IF mailbox = {} THEN {}
  ELSE {u \in mailbox : u >= n} \cup {Highest(mailbox)}

InitNewUids ==
  /\ NoSession
  /\ call \in [fn : {"fetch_new_uids"},
               arg : [last_uid : LastUids, mailbox : Mailboxes, build : Builds],
               cfg : {NoCfg}]
  /\ ret = NoResult

\* select, then the query is formatted and uid_search sends it.
NewUidsSearch ==
  /\ call.fn = "fetch_new_uids" /\ net = <<>> /\ ret = NoResult
  /\ \/ /\ ret' = Err("SELECT failed: ", <<>>)
        /\ net' = net
     \/ IF Overflows(call.arg.last_uid) /\ call.arg.build = "overflow-checks"
          THEN /\ ret' = Panicked
               /\ net' = net
          ELSE /\ net' = <<[kind |-> "send", conn |-> "std", tag |-> <<>>,
                            what |-> "UID SEARCH", from |-> AddOne(call.arg.last_uid)]>>
               /\ ret' = ret
  /\ UNCHANGED <<call, idleVars>>

\* The answer to UID SEARCH: an error (a server may refuse the UID 0, which
\* no message has), or the UIDs found, which are filtered and sorted.
NewUidsAnswer ==
  /\ call.fn = "fetch_new_uids" /\ net # <<>> /\ ret = NoResult
  /\ \/ ret' = Err("UID SEARCH failed: ", <<>>)
     \/ \E its \in Orders(Found(net[1].from, call.arg.mailbox)) :
          ret' = Ok(SearchResult("imap_fetch_new_uids", its, call.arg.last_uid))
  /\ UNCHANGED <<call, net, idleVars>>

NextNewUids == NewUidsSearch \/ NewUidsAnswer

SpecNewUids == InitNewUids /\ [][NextNewUids]_vars

\* C38: for every last_uid of u32 the search range of fetch_new_uids starts
\* at last_uid + 1: the addition neither aborts the call nor wraps, so at
\* last_uid = 2^32 - 1 no search from 0 is sent, and a call that succeeds
\* there returns an empty result.
C38_LowerBoundNeverWraps ==
  call.fn = "fetch_new_uids" =>
    /\ ret.kind # "panic"
    /\ net # <<>> => net[1].from > call.arg.last_uid
    /\ (call.arg.last_uid = U32Max /\ ret.kind = "ok") => ret.val = <<>>


\* ------------------------------------------------------------------------
\* delete_messages and move_messages on a folder other sessions work on
\* ------------------------------------------------------------------------

\* The UIDs a message of the folder can have.
MbxUids == {7, 8, 9}

\* A message is absent, present, or present and flagged \Deleted.
MbxFolders == [MbxUids -> {"absent", "present", "deleted"}]

MbxFns == {"delete_messages", "move_messages"}

\* The messages of folder m.
InFolder(m) == {u \in MbxUids : m[u] # "absent"}

\* UID STORE <uids> +FLAGS (\Deleted), accepted: the messages of the set
\* that exist are flagged.
Stored(m, us) == [u \in MbxUids |-> IF u \in us /\ m[u] # "absent" THEN "deleted" ELSE m[u]]

\* EXPUNGE: every message of the selected folder that has the \Deleted flag
\* is removed (RFC 3501, section 6.4.3), whatever set the STORE before it
\* named.
Expunged(m, us) == [u \in MbxUids |-> IF m[u] = "deleted" THEN "absent" ELSE m[u]]

\* UID MOVE: the messages of the set go to the destination.
Moved(m, us) == [u \in MbxUids |-> IF u \in us THEN "absent" ELSE m[u]]

InitMbx ==
  /\ NoCommand
  /\ \E m \in MbxFolders, us \in (SUBSET MbxUids) \ {{}}, f \in MbxFns :
       /\ call = [fn |-> f, arg |-> [uids |-> us, before |-> m], cfg |-> NoCfg,
                  at |-> "select"]
       /\ net = [src |-> m, dst |-> {}, log |-> <<>>]
  /\ ret = NoResult

MbxReturn(r) ==
  /\ ret' = r
  /\ call' = [call EXCEPT !.at = "done"]

MbxGo(at) ==
  /\ call' = [call EXCEPT !.at = at]
  /\ ret' = ret

MbxLog(what, ok) == Append(net.log, [what |-> what, ok |-> ok])

\* session.select(folder)
MbxSelect ==
  /\ call.at = "select"
  /\ \/ /\ MbxReturn(Err("SELECT failed: ", <<>>))
        /\ net' = [net EXCEPT !.log = MbxLog("SELECT", FALSE)]
     \/ /\ MbxGo(IF call.fn = "move_messages" THEN "move" ELSE "store")
        /\ net' = [net EXCEPT !.log = MbxLog("SELECT", TRUE)]
  /\ UNCHANGED idleVars

\* session.uid_mv: Ok returns, Err goes to the fallback.
MbxMove ==
  /\ call.at = "move"
  /\ \/ /\ MbxReturn(Ok(<<>>))
        /\ net' = [net EXCEPT !.src = Moved(net.src, call.arg.uids),
                              !.dst = @ \cup (call.arg.uids \cap InFolder(net.src)),
                              !.log = MbxLog("UID MOVE", TRUE)]
     \/ /\ MbxGo("copy")
        /\ net' = [net EXCEPT !.log = MbxLog("UID MOVE", FALSE)]
  /\ UNCHANGED idleVars

\* session.uid_copy(...)?
MbxCopy ==
  /\ call.at = "copy"
  /\ \/ /\ MbxGo("store")
        /\ net' = [net EXCEPT !.dst = @ \cup (call.arg.uids \cap InFolder(net.src)),
                              !.log = MbxLog("UID COPY", TRUE)]
     \/ /\ MbxReturn(Err("UID COPY failed: ", <<>>))
        /\ net' = [net EXCEPT !.log = MbxLog("UID COPY", FALSE)]
  /\ UNCHANGED idleVars

\* session.uid_store(uid_set, "+FLAGS (\\Deleted)"): the command is sent, `?`
\* returns when that fails; the responses are collected and dropped, a
\* tagged NO among them too.
MbxStore ==
  /\ call.at = "store"
  /\ \/ /\ MbxReturn(Err("UID STORE +Deleted failed: ", <<>>))
        /\ net' = net
     \/ /\ MbxGo("expunge")
        /\ net' = [net EXCEPT !.src = Stored(net.src, call.arg.uids),
                              !.log = MbxLog("UID STORE", TRUE)]
     \/ /\ MbxGo("expunge")
        /\ net' = [net EXCEPT !.log = MbxLog("UID STORE", FALSE)]
  /\ UNCHANGED idleVars

\* session.expunge(), its responses collected and dropped; then Ok(()).
MbxExpunge ==
  /\ call.at = "expunge"
  /\ \/ /\ MbxReturn(Err("EXPUNGE failed: ", <<>>))
        /\ net' = net
     \/ /\ MbxReturn(Ok(<<>>))
        /\ net' = [net EXCEPT !.src = Expunged(net.src, call.arg.uids),
                              !.log = MbxLog("EXPUNGE", TRUE)]
     \/ /\ MbxReturn(Ok(<<>>))
        /\ net' = [net EXCEPT !.log = MbxLog("EXPUNGE", FALSE)]
  /\ UNCHANGED idleVars

\* Another session flags a message of the folder \Deleted while the call
\* runs.
OtherSessionStores ==
  /\ call.at \notin {"select", "done"}
  /\ \E u \in InFolder(net.src) :
       /\ net.src[u] = "present"
       /\ net' = [net EXCEPT !.src[u] = "deleted"]
  /\ UNCHANGED <<call, ret, idleVars>>

NextMbx ==
  \/ MbxSelect
  \/ MbxMove
  \/ MbxCopy
  \/ MbxStore
  \/ MbxExpunge
  \/ OtherSessionStores

SpecMbx == InitMbx /\ [][NextMbx]_vars

\* The k-th command of the log is an EXPUNGE.
IsExpunge(k) == net.log[k].what = "EXPUNGE"

\* C37: delete_messages and the fallback of move_messages remove from the
\* selected folder only messages of the caller's UID set: a message outside
\* the set that was in the folder when the call began is in the folder
\* afterwards, flagged \Deleted by another session or not; and EXPUNGE is sent
\* only when the STORE before it was accepted.
C37_OnlyNamedMessagesRemoved ==
  call.fn \in MbxFns =>
    /\ \A u \in InFolder(call.arg.before) \ call.arg.uids : u \in InFolder(net.src)
    /\ \A k \in 2..Len(net.log) :
         IsExpunge(k) => net.log[k - 1].what = "UID STORE" /\ net.log[k - 1].ok


\* ------------------------------------------------------------------------
\* The security field in IMAP connect and in SMTP build_transport
\* ------------------------------------------------------------------------

\* Values of the security field: the three of the configuration types, and
\* values outside them.
SecurityTexts == {"tls", "starttls", "none", "ssl", "TLS", ""}

KnownSecurities == {"tls", "starttls", "none"}

\* The arm of the match in build_transport that takes config.security.
TransportArm(security) ==
  CASE security = "tls" -> "relay"
    [] security = "starttls" -> "starttls_relay"
    [] OTHER -> "builder_dangerous"

\* What the transport of each builder does when it is used, up to the
\* authentication (lettre: relay wraps the connection in TLS, starttls_relay
\* requires the STARTTLS upgrade, builder_dangerous uses no TLS).
TransportPhases(config) ==
  CASE TransportArm(config.security) = "relay" -> <<"TCP", "TLS", "AUTH">>
    [] TransportArm(config.security) = "starttls_relay" ->
         <<"TCP", "EHLO", "STARTTLS", "TLS", "AUTH">>
    [] OTHER -> <<"TCP", "AUTH">>

\* The phases that send the credentials.
CredentialPhases == {"LOGIN", "AUTHENTICATE", "AUTH"}

SecFns == {"connect", "test_connection"}

\* The phases of function f for config c: connect of imap/client.rs,
\* test_connection of smtp/client.rs.
PhasesOf(f, c) == IF f = "connect" THEN ConnectPhases(c) ELSE TransportPhases(c)

InitSec ==
  /\ NoSession
  /\ call \in [fn : SecFns, arg : {<<>>},
               cfg : [security : SecurityTexts, auth_method : AuthMethods,
                      accept_invalid_certs : BOOLEAN]]
  /\ ret = NoResult

\* The next phase of the connection is done, or fails.
SecPhase ==
  /\ call.fn \in SecFns /\ ret = NoResult
  /\ Len(net) < Len(PhasesOf(call.fn, call.cfg))
  /\ LET phase == PhasesOf(call.fn, call.cfg)[Len(net) + 1]
     IN  /\ net' = Append(net, Ev("conn", IF call.fn = "connect" THEN "std" ELSE "smtp",
                                  phase))
         /\ \/ ret' = ret
            \/ ret' = Err(IF call.fn = "connect" THEN ConnectErr(call.cfg, phase)
                          ELSE "SMTP test error: ", <<>>)
  /\ UNCHANGED <<call, idleVars>>

\* The function returns: the error of a security mode connect does not know
\* or of a transport that cannot be built, Ok after the last phase.
SecReturn ==
  /\ call.fn \in SecFns /\ ret = NoResult
  /\ \/ /\ call.fn = "connect" /\ PhasesOf(call.fn, call.cfg) = <<>>
        /\ ret' = Err("Unknown security mode: ", <<call.cfg.security>>)
     \/ /\ call.fn = "test_connection" /\ net = <<>>
        /\ \E e \in BuildErrors(call.cfg) : ret' = Err(e, <<>>)
     \/ /\ PhasesOf(call.fn, call.cfg) # <<>>
        /\ Len(net) = Len(PhasesOf(call.fn, call.cfg))
        /\ ret' = Ok(<<>>)
  /\ UNCHANGED <<call, net, idleVars>>

NextSec == SecPhase \/ SecReturn

SpecSec == InitSec /\ [][NextSec]_vars

\* The credentials have been sent.
CredentialsSent == \E i \in 1..Len(net) : net[i].what \in CredentialPhases

\* The connection was under TLS when the credentials were sent.
SentUnderTls ==
  \A i \in 1..Len(net) :
    net[i].what \in CredentialPhases => \E j \in 1..(i - 1) : net[j].what = "TLS"

\* C32: SMTP follows the rules of IMAP connect for every value of the
\* security field: "tls" is TLS from the start, "starttls" the STARTTLS
\* upgrade, "none" plaintext, and any other value is refused with an error
\* and nothing is sent; the credentials go out unencrypted only when the
\* mode is exactly "none".
C32_SecurityModesAlike ==
  call.fn \in SecFns =>
    /\ call.cfg.security \notin KnownSecurities => net = <<>> /\ ret.kind \in {"none", "err"}
    /\ call.cfg.security = "tls" =>
         \A i \in 1..Len(net) : i >= 2 => net[2].what = "TLS"
    /\ call.cfg.security = "starttls" =>
         \A i \in 1..Len(net) :
           net[i].what = "TLS" => \E j \in 1..(i - 1) : net[j].what = "STARTTLS"
    /\ CredentialsSent => SentUnderTls \/ call.cfg.security = "none"


\* ------------------------------------------------------------------------
\* start_oauth_server (oauth.rs)
\* ------------------------------------------------------------------------

\* The printable characters of ASCII, from 0x20 to 0x7E.
Ascii ==
  <<SP, "!", DQ, "#", "$", "%", "&", "'", "(", ")", "*", "+", ",", "-", ".", "/">>
    \o Digits \o <<":", ";", "<", "=", ">", "?", "@">> \o UpperCase
    \o <<"[", BSL, "]", "^", "_", "0x60">> \o LowerCase \o <<"{", "|", "}", "~">>

\* The number of bytes of a character in UTF-8.
ByteLen(c) == IF c = EAcute THEN 2 ELSE 1

RECURSIVE ByteLength(_)
ByteLength(s) == IF s = <<>> THEN 0 ELSE ByteLen(Head(s)) + ByteLength(Tail(s))

HexDigits == Digits \o <<"a", "b", "c", "d", "e", "f">>

IsHex(c) == \E k \in 1..16 : HexDigits[k] = c \/ ToLowercase(<<c>>) = <<HexDigits[k]>>

HexVal(c) == (CHOOSE k \in 1..16 : ToLowercase(<<c>>) = <<HexDigits[k]>>) - 1

\* u8::from_str_radix(t, 16) for a text t of two bytes: two hex digits, or a
\* `+` and one hex digit; None otherwise.
FromStrRadix16(t) ==
  IF Len(t) = 2 /\ IsHex(t[1]) /\ IsHex(t[2]) THEN 16 * HexVal(t[1]) + HexVal(t[2])
  ELSE IF Len(t) = 2 /\ t[1] = "+" /\ IsHex(t[2]) THEN HexVal(t[2])
  ELSE None

\* The character of a decoded byte; a byte from 0x80 on is no UTF-8 on its
\* own, a byte below 0x20 or 0x7F is a control character.
ByteChar(b) ==
  IF b >= 128 THEN BinByte
  ELSE IF b >= 32 /\ b <= 126 THEN Ascii[b - 31]
  ELSE "ctl"

\* The loop of urlencoding_decode from character i of s on: it panics when
\* the slice &s[i + 1..i + 3] ends inside a character, else `val` is the
\* bytes pushed.
RECURSIVE DecodeFrom(_, _, _)
DecodeFrom(s, i, acc) ==
  IF i > Len(s) THEN [panic |-> FALSE, val |-> acc]
  ELSE LET rest == SubSeq(s, i + 1, Len(s))
           plain == DecodeFrom(s, i + 1, Append(acc, IF s[i] = "+" THEN SP ELSE s[i]))
       IN  IF s[i] = "%" /\ ByteLength(rest) >= 2
             THEN IF ByteLen(rest[1]) = 1 /\ ByteLen(rest[2]) > 1
                    THEN [panic |-> TRUE, val |-> <<>>]
                  ELSE IF ByteLen(rest[1]) = 1
                            /\ FromStrRadix16(SubSeq(rest, 1, 2)) # None
                    THEN DecodeFrom(s, i + 3,
                                    Append(acc, ByteChar(FromStrRadix16(SubSeq(rest, 1, 2)))))
                  ELSE plain
           ELSE plain

\* urlencoding_decode: String::from_utf8(result).unwrap_or_else(|_| s)
urlencoding_decode(s) ==
  LET decoded == DecodeFrom(s, 1, <<>>)
  IN  IF decoded.panic \/ Utf8Ok(decoded.val) THEN decoded
      ELSE [panic |-> FALSE, val |-> s]

\* pair.splitn(2, '='): the key and the value of a pair that has a `=`.
HasValue(pair) == Find(pair, <<"=">>) # 0

KeyOf(pair) == Take(pair, Find(pair, <<"=">>) - 1)

ValueOf(pair) == Drop(pair, Find(pair, <<"=">>))

\* parse_query_string: the pairs with a value of what follows the first `?`
\* (up to a second one), in order.
QueryPairs(path) ==
  IF Len(Split(path, "?")) < 2 THEN <<>>
  ELSE SelectSeq(Split(Split(path, "?")[2], "&"), HasValue)

\* parse_query_string panics when the decoding of a value does.
QueryPanics(path) ==
  \E k \in 1..Len(QueryPairs(path)) : urlencoding_decode(ValueOf(QueryPairs(path)[k])).panic

\* The pairs of the query with the given key.
Hits(path, key) == {k \in 1..Len(QueryPairs(path)) : KeyOf(QueryPairs(path)[k]) = key}

\* params.get(key).is_some() for the map parse_query_string returns.
HasParam(path, key) == Hits(path, key) # {}

\* params.get(key): the decoded value of the last pair with that key.
Param(path, key) ==
  LET last == CHOOSE k \in Hits(path, key) : \A j \in Hits(path, key) : j <= k
  IN  urlencoding_decode(ValueOf(QueryPairs(path)[last])).val

\* request.lines().next(): the text before the first line end.
FirstLine(request) ==
  LET l == IF Find(request, <<LF>>) = 0 THEN request
           ELSE Take(request, Find(request, <<LF>>) - 1)
  IN  IF l # <<>> /\ l[Len(l)] = CR THEN Take(l, Len(l) - 1) ELSE l

\* parse_auth_code_and_state
parse_auth_code_and_state(request) ==
  LET words == SplitWhitespace(FirstLine(request))
      path == words[2]
  IN  IF request = <<>> THEN Err("Empty request", <<>>)
      ELSE IF Len(words) < 2 THEN Err("No path in request", <<>>)
      ELSE IF QueryPanics(path) THEN Panicked
      ELSE IF Contains(path, <<"error", "=">>)
        THEN Err("OAuth error: ", IF HasParam(path, <<"error">>)
                                    THEN Param(path, <<"error">>) ELSE <<>>)
      ELSE IF ~HasParam(path, <<"code">>) THEN Err("No auth code in redirect", <<>>)
      ELSE IF ~HasParam(path, <<"state">>) THEN Err("No state in redirect", <<>>)
      ELSE Ok([code |-> Param(path, <<"code">>), state |-> Param(path, <<"state">>)])

\* returned_state != state
StateMatches(returned_state, state) == returned_state = state

\* The state values of a caller.
CallerStates == {<<"s", "1">>, <<"s", SP, "1">>, <<>>}

\* "GET /callback?<query> HTTP/1.1\r\nHost: localhost\r\n\r\n"
Redirect(query) ==
  <<"GET", SP, "/callback", "?">> \o query \o <<SP, "HTTP/1.1", CR, LF, "Host:", SP,
    "localhost", CR, LF, CR, LF>>

\* Query strings of a redirect: code and state in both orders, a state that
\* differs, a state in escaped forms, a code or a state missing or without
\* value, an error with and without code and state, a pair given twice, an
\* escape cut short, an escape followed by a character of two bytes.
Queries ==
  {<<"code", "=", "c", "&", "state", "=", "s", "1">>,
   <<"state", "=", "s", "1", "&", "code", "=", "c">>,
   <<"code", "=", "c", "&", "state", "=", "z">>,
   <<"code", "=", "c", "&", "state", "=", "s", "%", "3", "1">>,
   <<"code", "=", "c", "&", "state", "=", "s", "+", "1">>,
   <<"code", "=", "c", "&", "state", "=", "s", "%", "2", "0", "1">>,
   <<"code", "=", "c", "&", "state", "=">>,
   <<"code", "=", "c", "&", "state">>,
   <<"code", "=", "c">>,
   <<"state", "=", "s", "1">>,
   <<"code", "&", "state", "=", "s", "1">>,
   <<"error", "=", "d", "&", "state", "=", "s", "1">>,
   <<"code", "=", "c", "&", "state", "=", "s", "1", "&", "error", "=", "d">>,
   <<"code", "=", "c", "&", "state", "=", "z", "&", "state", "=", "s", "1">>,
   <<"code", "=", "c", "%", "4", "&", "state", "=", "s", "1">>,
   <<"code", "=", "c", "&", "state", "=", "%", "a", EAcute>>,
   <<>>}

\* What the one connection sends: a redirect, a request line without path,
\* nothing.
Requests == {Redirect(q) : q \in Queries} \cup {<<"GET">>, <<>>}

\* The success page.
EvPage == [kind |-> "send", conn |-> "browser", tag |-> <<>>, what |-> "200 OK"]

InitOauth ==
  /\ NoSession
  /\ call \in [fn : {"start_oauth_server"}, cfg : {NoCfg},
               arg : [state : CallerStates, request : Requests],
               at : {"bind"}]
  /\ ret = NoResult

OauthReturn(r) ==
  /\ ret' = r
  /\ call' = [call EXCEPT !.at = "done"]

\* TcpListener::bind on the port and the three after it.
OauthBind ==
  /\ call.fn = "start_oauth_server" /\ call.at = "bind"
  /\ \/ OauthReturn(Err("Failed to bind to any port", <<>>))
     \/ call' = [call EXCEPT !.at = "accept"] /\ ret' = ret
  /\ UNCHANGED NoSessionVars

\* listener.accept() under the deadline of 300 s.
OauthAccept ==
  /\ call.fn = "start_oauth_server" /\ call.at = "accept"
  /\ \/ OauthReturn(Err("OAuth timed out", <<>>))
     \/ OauthReturn(Err("Failed to accept: ", <<>>))
     \/ call' = [call EXCEPT !.at = "read"] /\ ret' = ret
  /\ UNCHANGED NoSessionVars

\* stream.read, parse_auth_code_and_state(&request)?, and the test of the
\* state.
OauthRead ==
  /\ call.fn = "start_oauth_server" /\ call.at = "read"
  /\ \/ OauthReturn(Err("Failed to read: ", <<>>))
     \/ LET parsed == parse_auth_code_and_state(call.arg.request)
        IN  IF parsed.kind # "ok" THEN OauthReturn(parsed)
            ELSE IF ~StateMatches(parsed.val.state, call.arg.state)
              THEN OauthReturn(Err("OAuth state mismatch", <<>>))
            ELSE call' = [call EXCEPT !.at = "respond"] /\ ret' = ret
  /\ UNCHANGED NoSessionVars

\* The success page is written (the result of the write is ignored) and the
\* code is returned.
OauthRespond ==
  /\ call.fn = "start_oauth_server" /\ call.at = "respond"
  /\ net' = Append(net, EvPage)
  /\ OauthReturn(Ok(parse_auth_code_and_state(call.arg.request).val))
  /\ UNCHANGED idleVars

NextOauth == OauthBind \/ OauthAccept \/ OauthRead \/ OauthRespond

SpecOauth == InitOauth /\ [][NextOauth]_vars


\* The path of the request the connection sent, <<>> when it has none.
PathOf(request) ==
  IF Len(SplitWhitespace(FirstLine(request))) < 2 THEN <<>>
  ELSE SplitWhitespace(FirstLine(request))[2]

\* The request carries a code and a state, no error, and its state is the
\* state of the caller.
RedirectAccepted ==
  LET path == PathOf(call.arg.request)
  IN  /\ ~Contains(path, <<"error", "=">>)
      /\ HasParam(path, <<"code">>) /\ HasParam(path, <<"state">>)
      /\ ~QueryPanics(path)
      /\ Param(path, <<"state">>) = call.arg.state

\* C33: start_oauth_server returns a code only for a redirect that carries a
\* code and a state equal to the caller's state, and the code is the one of
\* the redirect; for any other request, and when no connection comes in time,
\* it returns an error, no code, and the success page is not sent.
C33_CodeOnlyForMatchingState ==
  call.fn = "start_oauth_server" =>
    /\ ret.kind = "ok" =>
         /\ RedirectAccepted
         /\ ret.val.state = call.arg.state
         /\ ret.val.code = Param(PathOf(call.arg.request), <<"code">>)
    /\ (ret.kind = "ok" \/ net # <<>>) => call.at = "done" /\ net = <<EvPage>>
    /\ ~RedirectAccepted => net = <<>> /\ ret.kind # "ok"
    /\ call.at = "done" => ret.kind \in {"ok", "err"}

====
